---- MODULE Spec2Model ----
(***************************************************************************)
(* Local document <-> remote template binding of the Loro Templates        *)
(* extension: the registry templateDocuments (extension.ts), the           *)
(* open / save / close handlers that maintain it, and the Gateway          *)
(* (TemplateService, httpRequest) they call.                                *)
(*                                                                         *)
(* JavaScript values are encoded as strings: Undefined, Null, True and     *)
(* False are reserved tokens, every other string is a JS string.           *)
(* Timestamps are natural numbers, NoTime standing for a missing one.      *)
(***************************************************************************)
EXTENDS Integers, Sequences, FiniteSets, TLC

\* ------------------------------------------------------------------ bounds
MaxOpens == 1      \* openTemplate invocations
MaxSaves == 1      \* document-save events
MaxInFlight == 2   \* document-save events where saves overlap (SpecOverlap)
MaxChunks == 4     \* pieces of a validated content (SpecValidate)
MaxPieces == 4     \* pieces of a synthesized content (SpecSynthesize)
MaxListed == 2     \* elements of a list response (SpecSearch, SpecGateway)
MaxTested == 2     \* pieces of a tested content (SpecTest)
MaxUsage == 3      \* the largest usageCount of a usage record

\* --------------------------------------------------------------- JS values
Undefined == "undefined"
Null == "null"
True == "true"
False == "false"
NoTime == 0

None == [none |-> TRUE]

\* JS truthiness of a string-encoded value
Falsy(v) == v \in {"", Undefined, Null, False}
\* a || b
Or(a, b) == IF Falsy(a) THEN b ELSE a
\* a || b on timestamps
OrT(a, b) == IF a = NoTime THEN b ELSE a

\* ------------------------------------------------------------ input domains
Texts == {"", "a", "b"}
RemoteIds == {"t1"}
Casings == {"camel", "pascal"}

\* Template (types/index.ts): a record of the remote service
FullRecord ==
    [id |-> "t1", name |-> "n", category |-> "c", description |-> "d",
     content |-> "a", sampleData |-> "s", isActive |-> True,
     createdAt |-> 1, updatedAt |-> 1, userId |-> "u", schema |-> "k"]

\* the records the remote service may hold for an id when it answers a GET;
\* other clients edit them too, so two answers need not agree
SeedRecords ==
    { FullRecord,
      [FullRecord EXCEPT !.name = "", !.content = ""],
      [FullRecord EXCEPT !.category = "", !.description = "",
                         !.sampleData = Null, !.schema = Null,
                         !.isActive = Undefined] }

\* the tree item's template a command is invoked with: one element of the
\* list response, which may be stale and omit sampleData / schema
ListSummary(id) ==
    [id |-> id, name |-> "n", category |-> "c", description |-> "d",
     content |-> "b", sampleData |-> Undefined, isActive |-> True,
     createdAt |-> 1, updatedAt |-> 1, userId |-> Undefined,
     schema |-> Undefined]

\* ------------------------------------------------------- response encoding
CamelKeys == {"id", "name", "category", "description", "content",
              "sampleData", "isActive", "createdAt", "updatedAt",
              "userId", "schema"}
TimeKeys == {"createdAt", "updatedAt"}

PascalOf(k) ==
    CASE k = "id" -> "Id"
      [] k = "name" -> "Name"
      [] k = "category" -> "Category"
      [] k = "description" -> "Description"
      [] k = "content" -> "Content"
      [] k = "sampleData" -> "SampleData"
      [] k = "isActive" -> "IsActive"
      [] k = "createdAt" -> "CreatedAt"
      [] k = "updatedAt" -> "UpdatedAt"
      [] k = "userId" -> "UserId"
      [] k = "schema" -> "Schema"

PascalKeys == {PascalOf(k) : k \in CamelKeys}
RawKeys == CamelKeys \cup PascalKeys
CamelOf(K) == CHOOSE k \in CamelKeys : PascalOf(k) = K
Missing(k) == IF k \in TimeKeys THEN NoTime ELSE Undefined

\* the parsed JSON body of a response that carries record rec in one of the
\* two casing conventions of the remote API; a property the body does not
\* have reads as undefined
RawResponse(rec, casing) ==
    [K \in RawKeys |->
        IF K \in CamelKeys
        THEN IF casing = "camel" THEN rec[K] ELSE Missing(K)
        ELSE IF casing = "pascal" THEN rec[CamelOf(K)]
             ELSE Missing(CamelOf(K))]

\* getTemplate's normalisation of the raw response
Normalize(response) ==
    [id |-> Or(response["id"], response["Id"]),
     name |-> Or(response["name"], response["Name"]),
     category |-> Or(response["category"], response["Category"]),
     description |-> Or(response["description"], response["Description"]),
     content |-> Or(response["content"], response["Content"]),
     sampleData |-> Or(Or(response["sampleData"], response["SampleData"]), Null),
     isActive |-> IF response["isActive"] # Undefined
                  THEN response["isActive"] ELSE response["IsActive"],
     createdAt |-> OrT(response["createdAt"], response["CreatedAt"]),
     updatedAt |-> OrT(response["updatedAt"], response["UpdatedAt"]),
     userId |-> Or(response["userId"], response["UserId"]),
     schema |-> Or(response["schema"], response["Schema"])]

\* openTextDocument({content}): a missing content gives an empty buffer
BufferInit(content) == IF content \in {Undefined, Null} THEN "" ELSE content

\* the buffer filled from the list summary instead of the fetched record
OpenedText_Summary(summary, full) == BufferInit(summary.content)

\* the text openTemplate creates the document with
OpenedText(summary, full) == BufferInit(full.content)

\* ------------------------------------------------------------------ Gateway
\* a save that leaves the schema out of the data it passes on
SaveData_NoSchema(stored, text) ==
    [name |-> stored.name, category |-> stored.category,
     description |-> stored.description, content |-> text,
     isActive |-> stored.isActive, sampleData |-> stored.sampleData,
     schema |-> Undefined]

\* the templateData object saveTemplateToServer passes to updateTemplate
SaveData(stored, text) ==
    [name |-> stored.name, category |-> stored.category,
     description |-> stored.description, content |-> text,
     isActive |-> stored.isActive, sampleData |-> stored.sampleData,
     schema |-> stored.schema]

\* updateTemplate's requestBody (PascalCase, defaults filled in)
UpdateBody(id, data, clock) ==
    [Id |-> id,
     Name |-> data.name,
     Description |-> Or(data.description, ""),
     Content |-> data.content,
     Category |-> Or(data.category, "General"),
     IsActive |-> IF data.isActive # Undefined THEN data.isActive ELSE True,
     Schema |-> Or(data.schema, Null),
     SampleData |-> Or(data.sampleData, Null),
     UpdatedAt |-> clock]

\* the record updateTemplate builds from what it sent when the PUT answers
\* with an empty body (createdAt: '' is the missing timestamp)
Confirmation(id, data, clock) ==
    [id |-> id, name |-> data.name, category |-> data.category,
     description |-> data.description, content |-> data.content,
     isActive |-> data.isActive,
     sampleData |-> Or(data.sampleData, Null),
     schema |-> Or(data.schema, Null),
     createdAt |-> NoTime, updatedAt |-> clock, userId |-> Undefined]

\* HttpResponse.json(): null for an empty body, the parsed body otherwise
Json(outcome, rec, casing) ==
    IF outcome = "ok_empty" THEN None ELSE RawResponse(rec, casing)

\* an empty body passed on as the null outcome
UpdateResult_Null(template, id, data, clock) == template

\* what updateTemplate returns for a 2xx response
UpdateResult(template, id, data, clock) ==
    IF template = None
    THEN RawResponse(Confirmation(id, data, clock), "camel")
    ELSE template

\* a catch that returns the confirmation record
UpdateCatch_Confirm(id, data, clock) ==
    RawResponse(Confirmation(id, data, clock), "camel")

\* what updateTemplate's catch returns after showing the error
UpdateCatch(id, data, clock) == None

\* the content check left out
ContentMissing_Never(data) == FALSE

\* updateTemplate's check "if (!templateData.content) throw"
ContentMissing(data) == Falsy(data.content)

\* the record the remote service holds after applying a PUT body to rec
Applied(rec, body) ==
    [rec EXCEPT !.name = body.Name, !.description = body.Description,
                !.content = body.Content, !.category = body.Category,
                !.isActive = body.IsActive, !.schema = body.Schema,
                !.sampleData = body.SampleData, !.updatedAt = body.UpdatedAt]

\* outcomes of one HTTP exchange
Outcomes == {"ok_body", "ok_empty", "notfound", "servererror", "transport"}
Success == {"ok_body", "ok_empty"}

\* -------------------------------------------------------------------- state
VARIABLES
    apiKey,             \* context.secrets holds 'loro.apiKey'
    remote,             \* the ids for which the remote service holds a record
    docs,               \* the editor's text documents, by document uri
    templateDocuments,  \* the registry: document uri -> stored object (0: absent)
    heap,               \* the template objects getTemplate created
    opens,              \* openTemplate invocations
    saves,              \* onDidSaveTextDocument invocations
    lastSave,           \* what the save step just taken did: its messages,
                        \* the response it got, what updateTemplate returned
                        \* (NoSave after any other step)
    justOpened,         \* the document openTemplate has just bound: nothing
                        \* but save events happened since (0: none)
    templates,          \* TemplateTreeProvider.templates: the listing
    loading,            \* a loadTemplates call awaits its list request
    filtering,          \* a filterTemplates call: where it stands, and the
                        \* templates the tree has rendered since
    session,            \* AuthProvider: _isAuthenticated, and where its
                        \* initialize, login and logout stand
    arg,                \* the argument of a call of one of the functions
                        \* that are checked on their own
    ret                 \* what that call returned, once it has

\* the state of the tree view
tree == <<templates, loading, filtering>>
NoFilter == [pc |-> "idle", shown |-> <<>>]

\* the state of the AuthProvider
NoSession ==
    [isAuthenticated |-> FALSE, initialize |-> "done", validation |-> "none",
     login |-> "idle", logout |-> "idle"]

\* a call of a function that is checked on its own
call == <<arg, ret>>
NoArg == [none |-> TRUE]
NoRet == [done |-> FALSE]

vars == <<apiKey, remote, docs, templateDocuments, heap, opens, saves, lastSave,
          justOpened, tree, call, session>>

NoDoc == [st |-> "none", text |-> ""]
IdleOpen == [pc |-> "idle", summary |-> None, sent |-> FALSE, msgs |-> {}]
\* a save: document, stored object, data and request are kept while the
\* request is in flight; conc tells that another save of the same document
\* has been in flight at the same time
IdleSave == [pc |-> "idle", doc |-> 0, obj |-> 0, data |-> None, req |-> None,
             conc |-> FALSE]
DoneSave == [IdleSave EXCEPT !.pc = "done"]
\* the outcome of a save step: sent tells whether it sent a request, http
\* the kind of response it got, returned and stamp whether updateTemplate
\* returned a record and that record's updatedAt
NoSave == [save |-> 0, doc |-> 0, obj |-> 0, sent |-> FALSE, http |-> "",
           returned |-> FALSE, stamp |-> NoTime, msgs |-> {}]

\* the openTemplate invocations, save events and documents of a behaviour
OpenIds == DOMAIN opens
SaveIds == DOMAIN saves
DocIds == DOMAIN docs

\* new Date(): the local clock, later than the timestamps of the seed
\* records; it has advanced by one at every save event
now == 2 + Cardinality({i \in SaveIds : saves[i].pc # "idle"})

Init ==
    /\ apiKey = TRUE
    /\ remote = RemoteIds
    /\ docs = [d \in 1..MaxOpens |-> NoDoc]
    /\ templateDocuments = [d \in 1..MaxOpens |-> 0]
    /\ heap = [o \in 1..MaxOpens |-> None]
    /\ opens = [j \in 1..MaxOpens |-> IdleOpen]
    /\ saves = [i \in 1..MaxSaves |-> IdleSave]
    /\ lastSave = NoSave
    /\ justOpened = 0
    /\ templates = {}
    /\ loading = FALSE
    /\ filtering = NoFilter
    /\ session = NoSession
    /\ arg = NoArg
    /\ ret = NoRet

\* getTemplateInfo / templateDocuments.get: the stored object, None if absent
getTemplateInfo(d) ==
    IF templateDocuments[d] = 0 THEN None ELSE heap[templateDocuments[d]]

Exists(id) == id \in remote

\* the outcomes the remote service can give a request about record id
Possible(id, outcome) ==
    IF outcome \in Success THEN Exists(id)
    ELSE IF outcome = "notfound" THEN ~Exists(id)
    ELSE TRUE

\* the stored object o is still referenced: by the registry, by an
\* openTemplate that has not bound it yet, or by a save in flight
Referenced(o, registry, openTasks, saveTasks) ==
    \/ \E d \in DocIds : registry[d] = o
    \/ openTasks[o].pc = "showing"
    \/ \E i \in SaveIds : saveTasks[i].pc = "inflight" /\ saveTasks[i].obj = o

\* a closed document is still referenced by a save in flight
DocReferenced(d, saveTasks) ==
    \E i \in SaveIds : saveTasks[i].pc = "inflight" /\ saveTasks[i].doc = d

\* garbage collection: objects nothing references any more are dropped, and
\* so is the text of closed documents no handler holds
Collect(h, registry, openTasks, saveTasks) ==
    [o \in OpenIds |->
        IF Referenced(o, registry, openTasks, saveTasks) THEN h[o] ELSE None]
CollectDocs(ds, saveTasks) ==
    [d \in DocIds |->
        IF ds[d].st = "closed" /\ ~DocReferenced(d, saveTasks)
        THEN [ds[d] EXCEPT !.text = ""] ELSE ds[d]]

\* tasks are numbered in the order they start
NextOpen(j) ==
    opens[j].pc = "idle" /\ (IF j = 1 THEN TRUE ELSE opens[j - 1].pc # "idle")
NextSave(i) ==
    saves[i].pc = "idle" /\ (IF i = 1 THEN TRUE ELSE saves[i - 1].pc # "idle")

\* ------------------------------------------------------------ openTemplate
\* loro.openTemplate on a tree item: openTemplate up to the await of the
\* GET /api/templates/{id} request (makeApiCall throws without an API key;
\* getTemplate and openTemplate then each show their error)
OpenCmd(j, id) ==
    /\ NextOpen(j)
    /\ opens' = [opens EXCEPT ![j] =
          IF apiKey
          THEN [@ EXCEPT !.pc = "fetching", !.summary = ListSummary(id),
                         !.sent = TRUE]
          ELSE [@ EXCEPT !.pc = "done", !.summary = ListSummary(id),
                         !.msgs = {"fetchFailed", "couldNotLoad"}]]
    /\ justOpened' = 0
    /\ lastSave' = NoSave
    /\ UNCHANGED <<tree, call, session, apiKey, remote, docs, templateDocuments, heap, saves>>

\* the list summary kept instead of the fetched record
FullTemplate_Summary(summary, response) == summary

\* the object openTemplate goes on with after a successful fetch
FullTemplate(summary, response) == Normalize(response)

\* the GET response arrives.  A 2xx with a body carries some record rec in
\* one of the two casings: getTemplate normalises it, openTextDocument
\* creates the untitled document (docOk) and openTemplate awaits
\* showTextDocument.  A 2xx with an empty body makes the normalisation throw,
\* so getTemplate returns null as it does for a failed call.
FetchResponse(j, outcome) ==
    /\ opens[j].pc = "fetching"
    /\ Possible(opens[j].summary.id, outcome)
    /\ IF outcome = "ok_body"
       THEN \E rec \in SeedRecords, casing \in Casings, docOk \in BOOLEAN :
              LET full == FullTemplate(opens[j].summary,
                                       Json(outcome, rec, casing))
              IN /\ rec.id = opens[j].summary.id
                 /\ heap' = [heap EXCEPT ![j] = IF docOk THEN full ELSE None]
                 /\ opens' = [opens EXCEPT ![j] =
                       [@ EXCEPT !.pc = IF docOk THEN "showing" ELSE "done",
                                 !.msgs = IF docOk THEN {} ELSE {"openFailed"}]]
                 /\ docs' = IF docOk
                            THEN [docs EXCEPT ![j] =
                                    [st |-> "open",
                                     text |-> OpenedText(opens[j].summary, full)]]
                            ELSE docs
       ELSE /\ opens' = [opens EXCEPT ![j] =
                  [@ EXCEPT !.pc = "done",
                            !.msgs = {"fetchFailed", "couldNotLoad"}]]
            /\ UNCHANGED <<heap, docs>>
    /\ justOpened' = 0
    /\ lastSave' = NoSave
    /\ UNCHANGED <<tree, call, session, apiKey, remote, templateDocuments, saves>>

\* templateDocuments.set(doc.uri.toString(), fullTemplate)
Bind(registry, d, o) == [registry EXCEPT ![d] = o]

\* showTextDocument settles: on success the document is bound to the object
\* and the save instructions are shown, on failure the catch shows an error
ShowDone(j, ok) ==
    /\ opens[j].pc = "showing"
    /\ IF ok
       THEN /\ templateDocuments' = Bind(templateDocuments, j, j)
            /\ opens' = [opens EXCEPT ![j] =
                  [@ EXCEPT !.pc = "done", !.msgs = {"editing"}]]
            /\ justOpened' = IF docs[j].text = OpenedText(opens[j].summary, heap[j])
                              THEN j ELSE 0
       ELSE /\ opens' = [opens EXCEPT ![j] =
                  [@ EXCEPT !.pc = "done", !.msgs = {"openFailed"}]]
            /\ justOpened' = 0
            /\ UNCHANGED templateDocuments
    /\ heap' = Collect(heap, templateDocuments', opens', saves)
    /\ lastSave' = NoSave
    /\ UNCHANGED <<tree, call, session, apiKey, remote, docs, saves>>

\* ------------------------------------------------------------------ editor
\* the user edits the buffer of an open document (the text of a document
\* the registry does not hold is never read, so its edits are left out)
EditBuffer(d, t) ==
    /\ docs[d].st = "open"
    /\ opens[d].pc = "showing" \/ templateDocuments[d] # 0
    /\ t # docs[d].text
    /\ docs' = [docs EXCEPT ![d] = [@ EXCEPT !.text = t]]
    /\ justOpened' = 0
    /\ lastSave' = NoSave
    /\ UNCHANGED <<tree, call, session, apiKey, remote, templateDocuments, heap, opens, saves>>

\* a close handler that forgets the delete
Unbind_Keep(registry, d) == registry

\* templateDocuments.delete(document.uri.toString())
Unbind(registry, d) == [registry EXCEPT ![d] = 0]

\* onDidCloseTextDocument
CloseDoc(d) ==
    /\ docs[d].st = "open"
    /\ docs' = CollectDocs([docs EXCEPT ![d] = [@ EXCEPT !.st = "closed"]], saves)
    /\ templateDocuments' = Unbind(templateDocuments, d)
    /\ heap' = Collect(heap, templateDocuments', opens, saves)
    /\ justOpened' = 0
    /\ lastSave' = NoSave
    /\ UNCHANGED <<tree, call, session, apiKey, remote, opens, saves>>

\* ------------------------------------------------------ saveTemplateToServer
\* a binding update that also takes the returned updatedAt
SaveApply_Stamped(stored, result, text) ==
    [stored EXCEPT !.content = text, !.updatedAt = result["updatedAt"]]

\* the binding update after a successful updateTemplate:
\* storedTemplate.content = document.getText()
SaveApply(stored, result, text) == [stored EXCEPT !.content = text]

\* a write that reaches every stored object of the same remote id, as if the
\* registry kept one record per remote template
Written_ById(h, o, result, text) ==
    [p \in DOMAIN h |->
        IF h[p] = None THEN h[p]
        ELSE IF h[p].id = h[o].id THEN SaveApply(h[p], result, text)
        ELSE h[p]]

\* the write goes to the object the save read from the registry before its
\* request, and to no other
Written(h, o, result, text) ==
    [h EXCEPT ![o] = SaveApply(@, result, text)]

\* onDidSaveTextDocument for document d: the handler's has() guard, then
\* saveTemplateToServer up to the await of the PUT request.  The name check,
\* updateTemplate's validation and makeApiCall's key check each end the save
\* before a request is sent.
SaveEvent(i, d) ==
    /\ NextSave(i)
    /\ docs[d].st = "open"
    /\ LET o == templateDocuments[d]
           stored == getTemplateInfo(d)
           data == SaveData(stored, docs[d].text)
           started == [NoSave EXCEPT !.save = i, !.doc = d, !.obj = o]
           request == IF o = 0 THEN FALSE
                      ELSE ~Falsy(stored.name) /\ ~ContentMissing(data) /\ apiKey
       IN /\ saves' = [k \in SaveIds |->
               IF k = i
               THEN IF request
                    THEN [pc |-> "inflight", doc |-> d, obj |-> o,
                          data |-> data,
                          req |-> UpdateBody(stored.id, data, now),
                          conc |-> DocReferenced(d, saves)]
                    ELSE DoneSave
               ELSE IF request /\ saves[k].pc = "inflight" /\ saves[k].doc = d
                    THEN [saves[k] EXCEPT !.conc = TRUE]
                    ELSE saves[k]]
          /\ lastSave' =
               IF o = 0 THEN started
               ELSE IF Falsy(stored.name)
               THEN [started EXCEPT !.msgs = {"saveFailed"}]
               ELSE IF ~request
               THEN [started EXCEPT !.msgs = {"updateFailed"}]
               ELSE [started EXCEPT !.sent = TRUE]
    /\ UNCHANGED <<tree, call, session, apiKey, remote, docs, templateDocuments, heap, opens,
                   justOpened>>

\* a failed response answered by sending the request once more
SaveResponse_Retry(i, outcome) ==
    /\ saves[i].pc = "inflight"
    /\ Possible(saves[i].req.Id, outcome)
    /\ outcome \notin Success
    /\ saves' = [saves EXCEPT ![i] =
                   [@ EXCEPT !.req = [@ EXCEPT !.UpdatedAt = now]]]
    /\ lastSave' = [NoSave EXCEPT !.save = i, !.doc = saves[i].doc,
                                  !.obj = saves[i].obj, !.sent = TRUE,
                                  !.http = "failed"]
    /\ justOpened' = 0
    /\ UNCHANGED <<tree, call, session, apiKey, remote, docs, templateDocuments, heap, opens>>

\* the PUT response arrives: updateTemplate returns the parsed body, the
\* confirmation record for an empty body, or null after showing its error;
\* saveTemplateToServer then reports success, rewrites the stored object's
\* content from the buffer and refreshes the tree
SaveResponse(i, outcome) ==
    /\ saves[i].pc = "inflight"
    /\ Possible(saves[i].req.Id, outcome)
    /\ \E casing \in (IF outcome = "ok_body" THEN Casings ELSE {"camel"}) :
         LET t == saves[i]
             id == t.req.Id
             result == IF outcome \in Success
                       THEN UpdateResult(
                              Json(outcome, Applied(FullRecord, t.req), casing),
                              id, t.data, now)
                       ELSE UpdateCatch(id, t.data, now)
             shown == (IF outcome \in Success THEN {} ELSE {"updateFailed"})
                      \cup (IF result # None THEN {"saved"} ELSE {})
         IN /\ saves' = [saves EXCEPT ![i] = DoneSave]
            /\ lastSave' =
                  [save |-> i, doc |-> t.doc, obj |-> t.obj, sent |-> TRUE,
                   http |-> IF outcome \in Success THEN outcome ELSE "failed",
                   returned |-> (result # None),
                   stamp |-> IF result # None THEN result["updatedAt"]
                             ELSE NoTime,
                   msgs |-> shown]
            /\ heap' = Collect(
                         IF result # None
                         THEN Written(heap, t.obj, result, docs[t.doc].text)
                         ELSE heap,
                         templateDocuments, opens, saves')
    /\ docs' = CollectDocs(docs, saves')
    /\ justOpened' = 0
    /\ UNCHANGED <<tree, call, session, apiKey, remote, templateDocuments, opens>>

\* ------------------------------------------------------------- environment
\* a delete that also drops the bindings of the deleted record
ServerDelete_Unbind(id) ==
    /\ Exists(id)
    /\ remote' = remote \ {id}
    /\ templateDocuments' =
          [d \in DocIds |->
              IF templateDocuments[d] = 0 THEN 0
              ELSE IF getTemplateInfo(d).id = id THEN 0
              ELSE templateDocuments[d]]
    /\ heap' = Collect(heap, templateDocuments', opens, saves)
    /\ lastSave' = NoSave
    /\ UNCHANGED <<tree, call, session, apiKey, docs, opens, saves, justOpened>>

\* the record is deleted on the remote service (loro.deleteTemplate, or
\* another client)
ServerDelete(id) ==
    /\ Exists(id)
    /\ remote' = remote \ {id}
    /\ lastSave' = NoSave
    /\ UNCHANGED <<tree, call, session, apiKey, docs, templateDocuments, heap, opens, saves,
                   justOpened>>

\* login stores a validated key; the login command refreshes the tree
StoreKey ==
    /\ ~apiKey
    /\ apiKey' = TRUE
    /\ justOpened' = 0
    /\ lastSave' = NoSave
    /\ UNCHANGED <<tree, call, session, remote, docs, templateDocuments, heap, opens, saves>>

\* loro.logout: the key is deleted and the tree refreshed
Logout ==
    /\ apiKey
    /\ apiKey' = FALSE
    /\ justOpened' = 0
    /\ lastSave' = NoSave
    /\ UNCHANGED <<tree, call, session, remote, docs, templateDocuments, heap, opens, saves>>

Next ==
    \/ \E j \in OpenIds, id \in RemoteIds : OpenCmd(j, id)
    \/ \E j \in OpenIds, outcome \in Outcomes : FetchResponse(j, outcome)
    \/ \E j \in OpenIds, ok \in BOOLEAN : ShowDone(j, ok)
    \/ \E d \in DocIds, t \in Texts : EditBuffer(d, t)
    \/ \E d \in DocIds : CloseDoc(d)
    \/ \E i \in SaveIds, d \in DocIds : SaveEvent(i, d)
    \/ \E i \in SaveIds, outcome \in Outcomes : SaveResponse(i, outcome)
    \/ \E id \in RemoteIds : ServerDelete(id)
    \/ StoreKey
    \/ Logout

Spec == Init /\ [][Next]_vars

\* ---------------------------------------------------------------- tree view
\* getTemplates: the list response as an array, [] when it is not one
Listing(outcome, ids) ==
    IF outcome = "ok_body" THEN {ListSummary(id) : id \in ids} ELSE {}

\* what a list request can be answered with
ListOutcomes == Outcomes \ {"notfound"}

\* templateTreeProvider.refresh() (the 60 s timer, or a command): the event
\* makes the view call getChildren for the root, and loadTemplates calls
\* getTemplates; without an API key makeApiCall throws, getTemplates shows
\* its error and returns []
RefreshStart ==
    /\ ~loading
    /\ IF apiKey
       THEN loading' = TRUE /\ UNCHANGED templates
       ELSE templates' = {} /\ UNCHANGED loading
    /\ UNCHANGED <<apiKey, remote, docs, templateDocuments, heap, opens, saves,
                   lastSave, justOpened, call, session, filtering>>

\* a loadTemplates that also overwrites the objects the registry holds with
\* the list elements of the same id
RefreshDone_Rebind(outcome) ==
    /\ loading
    /\ loading' = FALSE
    /\ templates' = Listing(outcome, remote)
    /\ heap' = [o \in OpenIds |->
                  IF heap[o] # None
                     /\ \E t \in templates' : t.id = heap[o].id
                  THEN ListSummary(heap[o].id) ELSE heap[o]]
    /\ UNCHANGED <<apiKey, remote, docs, templateDocuments, opens, saves,
                   lastSave, justOpened, call, session, filtering>>

\* the list response arrives: this.templates = await getTemplates()
RefreshDone(outcome) ==
    /\ loading
    /\ loading' = FALSE
    /\ templates' = Listing(outcome, remote)
    /\ UNCHANGED <<apiKey, remote, docs, templateDocuments, heap, opens, saves,
                   lastSave, justOpened, call, session, filtering>>

NextRefresh ==
    \/ Next
    \/ RefreshStart
    \/ \E outcome \in ListOutcomes : RefreshDone(outcome)

\* one template document and MaxInFlight save events, for the saves that
\* overlap on a document
InitOverlap ==
    /\ apiKey = TRUE
    /\ remote = RemoteIds
    /\ docs = [d \in {1} |-> NoDoc]
    /\ templateDocuments = [d \in {1} |-> 0]
    /\ heap = [o \in {1} |-> None]
    /\ opens = [j \in {1} |-> IdleOpen]
    /\ saves = [i \in 1..MaxInFlight |-> IdleSave]
    /\ lastSave = NoSave
    /\ justOpened = 0
    /\ templates = {}
    /\ loading = FALSE
    /\ filtering = NoFilter
    /\ session = NoSession
    /\ arg = NoArg
    /\ ret = NoRet

SpecOverlap == InitOverlap /\ [][Next]_vars

\* the same with the tree view refreshing in the background
SpecRefresh == InitOverlap /\ [][NextRefresh]_vars

\* ------------------------------------------------- functions on their own
\* the editor and the registry while a function is checked on its own: no
\* document, no handler
Quiet ==
    /\ apiKey = TRUE
    /\ remote = RemoteIds
    /\ docs = <<>>
    /\ templateDocuments = <<>>
    /\ heap = <<>>
    /\ opens = <<>>
    /\ saves = <<>>
    /\ lastSave = NoSave
    /\ justOpened = 0
    /\ templates = {}
    /\ loading = FALSE
    /\ filtering = NoFilter
    /\ session = NoSession

\* the function returns: ret takes its value, nothing else changes
Return(value) ==
    /\ ~ret.done
    /\ ret' = [done |-> TRUE, value |-> value]
    /\ UNCHANGED <<arg, apiKey, remote, docs, templateDocuments, heap, opens,
                   saves, lastSave, justOpened, tree, session>>

\* a text is a sequence of characters; the keywords if, endif, for and
\* endfor stand as one character each
Concat(ss) ==
    LET F[n \in 0..Len(ss)] == IF n = 0 THEN <<>> ELSE F[n - 1] \o ss[n]
    IN F[Len(ss)]

\* every text of at most n pieces drawn from the set pieces
TextsOf(pieces, n) ==
    {Concat(ps) : ps \in UNION {[1..k -> pieces] : k \in 0..n}}

\* ------------------------------------------------- validateTemplateContent
\* the pieces the checked contents are put together from
Chunks ==
    { <<"{", "{">>, <<"}", "}">>, <<"{", "%">>, <<"%", "}">>, <<"{">>,
      <<" ">>, <<"if">>, <<"endif">>, <<"for">>, <<"endfor">> }

\* a match count that lets matches overlap
CountPair_Overlap(s, a, b) ==
    Cardinality({p \in 1..(Len(s) - 1) : s[p] = a /\ s[p + 1] = b})

\* (content.match(/ab/g) || []).length for the two characters a, b: the
\* matches are found from left to right and do not overlap
CountPair(s, a, b) ==
    LET F[n \in 0..Len(s)] ==
          \* the number of matches in the last n characters of s
          IF n < 2 THEN 0
          ELSE IF s[Len(s) - n + 1] = a /\ s[Len(s) - n + 2] = b
               THEN 1 + F[n - 2]
               ELSE F[n - 1]
    IN F[Len(s)]

\* the first position from p on that holds no white space
SkipSpace(s, p) ==
    LET F[q \in p..(Len(s) + 1)] ==
          IF q > Len(s) THEN q
          ELSE IF s[q] = " " THEN F[q + 1] ELSE q
    IN F[p]

\* (content.match(/{%\s*word/g) || []).length
CountTag(s, word) ==
    LET F[n \in 0..Len(s)] ==
          IF n < 3 THEN 0
          ELSE LET p == Len(s) - n + 1
                   q == SkipSpace(s, p + 2)
               IN IF s[p] = "{" /\ s[p + 1] = "%" /\ q <= Len(s)
                     /\ (IF q <= Len(s) THEN s[q] = word ELSE FALSE)
                  THEN 1 + F[Len(s) - q]
                  ELSE F[n - 1]
    IN F[Len(s)]

\* errors.push(msg) when the two counts differ
Push(errors, differ, msg) == IF differ THEN Append(errors, msg) ELSE errors

validateTemplateContent(content) ==
    LET e1 == Push(<<>>,
                   CountPair(content, "{", "{") # CountPair(content, "}", "}"),
                   "Mismatched {{ }} braces")
        e2 == Push(e1,
                   CountPair(content, "{", "%") # CountPair(content, "%", "}"),
                   "Mismatched {% %} statement braces")
        e3 == Push(e2,
                   CountTag(content, "if") # CountTag(content, "endif"),
                   "Mismatched if/endif blocks")
        e4 == Push(e3,
                   CountTag(content, "for") # CountTag(content, "endfor"),
                   "Mismatched for/endfor blocks")
    IN [isValid |-> Len(e4) = 0, errors |-> e4]

InitValidate ==
    /\ Quiet
    /\ arg \in TextsOf(Chunks, MaxChunks)
    /\ ret = NoRet

Validate == Return(validateTemplateContent(arg))

SpecValidate == InitValidate /\ [][Validate]_vars

\* ------------------------------------------- generateSampleDataFromTemplate
\* a content is a sequence of characters, one string of length one each.
\* The pieces the checked contents are put together from: plain text, and
\* double-brace references with one or two segments, with and without a
\* filter
Pieces ==
    { <<"H", "e", "l", "l", "o", " ">>,
      <<",", " ", "t", "o", "t", "a", "l", " ">>,
      <<"{", "{", " ", "u", "s", "e", "r", ".", "n", "a", "m", "e", " ", "}", "}">>,
      <<"{", "{", " ", "o", "r", "d", "e", "r", ".", "t", "o", "t", "a", "l", " ", "}", "}">>,
      <<"{", "{", " ", "u", "s", "e", "r", ".", "P", "a", "i", "d", "D", "a", "t", "e", " ", "|", " ", "f", " ", "}", "}">>,
      <<"{", "{", " ", "t", "o", "t", "a", "l", " ", "|", " ", "m", "a", "t", "h", ".", "f", "o", "r", "m", "a", "t", " ", "}", "}">>,
      <<"{", "{", "u", "s", "e", "r", "}", "}">>,
      <<"{", "{", "}", "}">> }

\* the values generateSampleValue returns, with their JavaScript type; the
\* text of IsoNow stands for new Date().toISOString()
JohnDoe == [type |-> "string", text |-> "John Doe"]
JohnEmail == [type |-> "string", text |-> "john@example.com"]
Decimal == [type |-> "number", text |-> "99.99"]
IsoNow == [type |-> "string", text |-> "new Date().toISOString()"]
Phone == [type |-> "string", text |-> "+1-555-123-4567"]
Address == [type |-> "string", text |-> "123 Main St, Anytown, ST 12345"]
Url == [type |-> "string", text |-> "https://example.com"]
IdText == [type |-> "string", text |-> "12345"]
Integer == [type |-> "number", text |-> "42"]
Description == [type |-> "string", text |-> "Sample description text"]
Title == [type |-> "string", text |-> "Sample Title"]
SampleValue == [type |-> "string", text |-> "Sample Value"]

\* String.prototype.toLowerCase on the letters the pieces hold
LowerOf ==
    "A" :> "a" @@ "B" :> "b" @@ "H" :> "h" @@ "P" :> "p" @@ "D" :> "d"
toLowerCase(s) ==
    [p \in 1..Len(s) |-> IF s[p] \in DOMAIN LowerOf THEN LowerOf[s[p]] ELSE s[p]]

\* String.prototype.includes
includes(s, t) ==
    \E p \in 0..(Len(s) - Len(t)) : SubSeq(s, p + 1, p + Len(t)) = t

\* the rule for id tried before the rule for date
generateSampleValue_IdFirst(propertyName) ==
    LET lowerName == toLowerCase(propertyName)
    IN IF includes(lowerName, <<"n", "a", "m", "e">>)
       THEN JohnDoe
       ELSE IF includes(lowerName, <<"e", "m", "a", "i", "l">>)
       THEN JohnEmail
       ELSE IF \/ includes(lowerName, <<"p", "r", "i", "c", "e">>)
            \/ includes(lowerName, <<"c", "o", "s", "t">>)
            \/ includes(lowerName, <<"a", "m", "o", "u", "n", "t">>)
       THEN Decimal
       ELSE IF includes(lowerName, <<"i", "d">>)
       THEN IdText
       ELSE IF includes(lowerName, <<"p", "h", "o", "n", "e">>)
       THEN Phone
       ELSE IF includes(lowerName, <<"a", "d", "d", "r", "e", "s", "s">>)
       THEN Address
       ELSE IF \/ includes(lowerName, <<"u", "r", "l">>)
            \/ includes(lowerName, <<"l", "i", "n", "k">>)
       THEN Url
       ELSE IF includes(lowerName, <<"d", "a", "t", "e">>)
       THEN IsoNow
       ELSE IF \/ includes(lowerName, <<"c", "o", "u", "n", "t">>)
            \/ includes(lowerName, <<"n", "u", "m", "b", "e", "r">>)
            \/ includes(lowerName, <<"q", "u", "a", "n", "t", "i", "t", "y">>)
       THEN Integer
       ELSE IF \/ includes(lowerName, <<"d", "e", "s", "c", "r", "i", "p", "t", "i", "o", "n">>)
            \/ includes(lowerName, <<"n", "o", "t", "e", "s">>)
       THEN Description
       ELSE IF includes(lowerName, <<"t", "i", "t", "l", "e">>)
       THEN Title
       ELSE SampleValue

\* the if / else if chain of generateSampleValue
generateSampleValue(propertyName) ==
    LET lowerName == toLowerCase(propertyName)
    IN IF includes(lowerName, <<"n", "a", "m", "e">>)
       THEN JohnDoe
       ELSE IF includes(lowerName, <<"e", "m", "a", "i", "l">>)
       THEN JohnEmail
       ELSE IF \/ includes(lowerName, <<"p", "r", "i", "c", "e">>)
            \/ includes(lowerName, <<"c", "o", "s", "t">>)
            \/ includes(lowerName, <<"a", "m", "o", "u", "n", "t">>)
       THEN Decimal
       ELSE IF includes(lowerName, <<"d", "a", "t", "e">>)
       THEN IsoNow
       ELSE IF includes(lowerName, <<"p", "h", "o", "n", "e">>)
       THEN Phone
       ELSE IF includes(lowerName, <<"a", "d", "d", "r", "e", "s", "s">>)
       THEN Address
       ELSE IF \/ includes(lowerName, <<"u", "r", "l">>)
            \/ includes(lowerName, <<"l", "i", "n", "k">>)
       THEN Url
       ELSE IF includes(lowerName, <<"i", "d">>)
       THEN IdText
       ELSE IF \/ includes(lowerName, <<"c", "o", "u", "n", "t">>)
            \/ includes(lowerName, <<"n", "u", "m", "b", "e", "r">>)
            \/ includes(lowerName, <<"q", "u", "a", "n", "t", "i", "t", "y">>)
       THEN Integer
       ELSE IF \/ includes(lowerName, <<"d", "e", "s", "c", "r", "i", "p", "t", "i", "o", "n">>)
            \/ includes(lowerName, <<"n", "o", "t", "e", "s">>)
       THEN Description
       ELSE IF includes(lowerName, <<"t", "i", "t", "l", "e">>)
       THEN Title
       ELSE SampleValue

\* the position of the first } from p on, Len(s) + 1 when there is none
FindClose(s, p) ==
    LET F[q \in p..(Len(s) + 1)] ==
          IF q > Len(s) THEN q
          ELSE IF s[q] = "}" THEN q ELSE F[q + 1]
    IN F[p]

\* /\{\{\s*([^}]+)\s*\}\}/ tried at position p: the position of the last
\* character of the match, 0 when there is no match at p.  Between the
\* opening braces and the first } there is at least one character, and the
\* first } is followed by another
MatchEnd(s, p) ==
    IF p + 1 <= Len(s) /\ s[p] = "{" /\ s[p + 1] = "{"
    THEN LET q == FindClose(s, p + 2)
         IN IF q > p + 2 /\ q + 1 <= Len(s)
                         /\ (IF q + 1 <= Len(s) THEN s[q + 1] = "}" ELSE FALSE)
            THEN q + 1
            ELSE 0
    ELSE 0

\* content.match(/\{\{\s*([^}]+)\s*\}\}/g): the matches from left to right,
\* none overlapping another; the empty sequence stands for null
variableMatches(content) ==
    LET F[p \in 1..(Len(content) + 1)] ==
          IF p > Len(content) THEN <<>>
          ELSE LET e == MatchEnd(content, p)
               IN IF e # 0
                  THEN <<SubSeq(content, p, e)>> \o F[e + 1]
                  ELSE F[p + 1]
    IN F[1]

\* match.replace(/[{}]/g, '')
StripBraces(s) == SelectSeq(s, LAMBDA c : c \notin {"{", "}"})

\* String.prototype.trim
Trim(s) ==
    LET inked == {p \in 1..Len(s) : s[p] # " "}
    IN IF inked = {} THEN <<>>
       ELSE SubSeq(s, CHOOSE p \in inked : \A q \in inked : p <= q,
                      CHOOSE p \in inked : \A q \in inked : p >= q)

\* String.prototype.split: the parts of s between the separators
Split(s, sep) ==
    LET F[n \in 0..Len(s)] ==
          \* the parts of the first n characters
          IF n = 0 THEN << <<>> >>
          ELSE LET parts == F[n - 1]
               IN IF s[n] = sep THEN Append(parts, <<>>)
                  ELSE [parts EXCEPT ![Len(parts)] = Append(@, s[n])]
    IN F[Len(s)]

\* an object is a function from its keys; {} is the function of no key
EmptyObject == <<>>
Keys(object) == DOMAIN object
\* object[key] = value
Assign(object, key, value) ==
    [k \in Keys(object) \cup {key} |-> IF k = key THEN value ELSE object[k]]

\* the fixture returned when sampleData has no key
DefaultFixture ==
    <<"u", "s", "e", "r">> :> (<<"n", "a", "m", "e">> :> JohnDoe @@ <<"e", "m", "a", "i", "l">> :> JohnEmail)
    @@ <<"c", "o", "m", "p", "a", "n", "y">> :> (<<"n", "a", "m", "e">> :> [type |-> "string", text |-> "Example Corp"])

\* the body of the loop over variableMatches
AddMatch(sampleData, match) ==
    LET variable == Trim(StripBraces(match))
        parts == Split(variable, ".")
    IN IF Len(parts) >= 2
       THEN LET objectName == parts[1]
                propertyName == parts[2]
                created == IF objectName \in Keys(sampleData)
                           THEN sampleData
                           ELSE Assign(sampleData, objectName, EmptyObject)
            IN Assign(created, objectName,
                      Assign(created[objectName], propertyName,
                             generateSampleValue(propertyName)))
       ELSE sampleData

generateSampleDataFromTemplate(content) ==
    LET matches == variableMatches(content)
        F[n \in 0..Len(matches)] ==
          IF n = 0 THEN EmptyObject ELSE AddMatch(F[n - 1], matches[n])
        sampleData == F[Len(matches)]
    IN IF Cardinality(Keys(sampleData)) > 0 THEN sampleData
       ELSE DefaultFixture

InitSynthesize ==
    /\ Quiet
    /\ arg \in TextsOf(Pieces, MaxPieces)
    /\ ret = NoRet

Synthesize == Return(generateSampleDataFromTemplate(arg))

SpecSynthesize == InitSynthesize /\ [][Synthesize]_vars

\* ---------------------------------------------------------- searchTemplates
\* the parsed body of the answer to GET /api/templates: an array of
\* elements, or something that is no array; a failed request makes
\* makeApiCall throw
ArrayOf(items) == [kind |-> "array", items |-> items]
NotArray == [kind |-> "object"]
Failed == [kind |-> "failed"]

\* getTemplates: the array as the service sent it, [] when the body is no
\* array or the call has thrown
getTemplates(response) ==
    IF response.kind = "array" THEN response.items ELSE <<>>

\* every sequence of at most n elements of the set items
ArraysOf(items, n) == UNION {[1..k -> items] : k \in 0..n}

\* the list elements searchTemplates is checked on: an element is a function
\* from the properties it has, name, description and category being
\* sequences of characters.  One element has no description, one is in the
\* other casing
SearchItems ==
    { [id |-> "t1", name |-> <<"A", "b">>, description |-> <<"c">>,
       category |-> <<"d">>],
      [id |-> "t2", name |-> <<"c">>, description |-> <<"a", "B">>,
       category |-> <<"d">>],
      [id |-> "t3", name |-> <<"c">>, description |-> <<"d">>,
       category |-> <<"b", "a">>],
      [id |-> "t4", name |-> <<"c">>, category |-> <<"a", "b">>],
      [Id |-> "t5", Name |-> <<"a", "b">>, Description |-> <<"c">>,
       Category |-> <<"d">>] }
Queries == {<<>>, <<"a">>, <<"B">>, <<"a", "b">>}

\* template[field].toLowerCase().includes(searchQuery): a TypeError when the
\* element has no such property
FieldIncludes(template, field, searchQuery) ==
    IF field \notin DOMAIN template THEN "TypeError"
    ELSE IF includes(toLowerCase(template[field]), searchQuery) THEN "true"
    ELSE "false"

\* an || that evaluates its right side only when the left side is false
OrElse(left, right) == IF left = "false" THEN right ELSE left

\* the callback of allTemplates.filter
SearchHit(template, searchQuery) ==
    OrElse(FieldIncludes(template, "name", searchQuery),
           OrElse(FieldIncludes(template, "description", searchQuery),
                  FieldIncludes(template, "category", searchQuery)))

\* searchTemplates: the catch returns [] when the callback throws
searchTemplates(query, response) ==
    LET allTemplates == getTemplates(response)
        searchQuery == toLowerCase(query)
        Hit(template) == SearchHit(template, searchQuery)
    IN IF \E n \in 1..Len(allTemplates) : Hit(allTemplates[n]) = "TypeError"
       THEN <<>>
       ELSE SelectSeq(allTemplates, LAMBDA template : Hit(template) = "true")

InitSearch ==
    /\ Quiet
    /\ arg \in [query : Queries,
                response : {ArrayOf(items) :
                              items \in ArraysOf(SearchItems, MaxListed)}
                           \cup {NotArray, Failed}]
    /\ ret = NoRet

Search == Return(searchTemplates(arg.query, arg.response))

SpecSearch == InitSearch /\ [][Search]_vars

\* ------------------------------------------- what the Gateway hands back
\* the answer to a request for one record: a body, an empty body, or a
\* failure that makes makeApiCall throw
BodyOf(body) == [kind |-> "body", body |-> body]
EmptyBody == [kind |-> "empty"]

\* the records a response may carry, in either casing
RawRecords == {RawResponse(rec, casing) : rec \in SeedRecords, casing \in Casings}

\* getTemplate: the normalised record, null after the catch
getTemplate(response) ==
    IF response.kind = "body" THEN Normalize(response.body) ELSE None

\* createTemplate: the parsed body as it came, null after the catch
createTemplate(response) ==
    IF response.kind = "body" THEN response.body ELSE None

\* updateTemplate with its checks passed: the parsed body as it came, the
\* confirmation record for an empty body, null after the catch
updateTemplate(id, data, clock, response) ==
    IF response.kind = "failed" THEN UpdateCatch(id, data, clock)
    ELSE UpdateResult(IF response.kind = "empty" THEN None ELSE response.body,
                      id, data, clock)

\* the data of the update calls checked here
SentData == SaveData(FullRecord, "b")

InitGateway ==
    /\ Quiet
    /\ arg \in [op : {"list"},
                response : {ArrayOf(items) :
                              items \in ArraysOf(RawRecords, MaxListed)}
                           \cup {NotArray, Failed}]
          \cup [op : {"getById", "create"},
                response : {BodyOf(raw) : raw \in RawRecords} \cup {Failed}]
          \cup [op : {"update"},
                response : {BodyOf(raw) : raw \in RawRecords}
                           \cup {EmptyBody, Failed}]
    /\ ret = NoRet

ListCall == arg.op = "list" /\ Return(getTemplates(arg.response))
GetByIdCall == arg.op = "getById" /\ Return(getTemplate(arg.response))
CreateCall == arg.op = "create" /\ Return(createTemplate(arg.response))
UpdateCall ==
    /\ arg.op = "update"
    /\ Return(updateTemplate(FullRecord.id, SentData, 2, arg.response))

NextGateway == ListCall \/ GetByIdCall \/ CreateCall \/ UpdateCall

SpecGateway == InitGateway /\ [][NextGateway]_vars

\* ---------------------------------------------------------------- makeApiCall
\* what context.secrets may hold under 'loro.apiKey'
StoredKeys == {Undefined, "", "k1", "k2"}
\* the records the calls are about
CallIds == {"t1", "t2"}
\* the templateData of the update and create calls
CallData ==
    {[SaveData(FullRecord, "b") EXCEPT !.name = n, !.content = c] :
        n \in {"", "n"}, c \in {"", "a"}}

NotAuthenticated == "Not authenticated. Please login first."
NoError == "no error"

\* getApiKey: secrets.get('loro.apiKey') || null
getApiKey(stored) == Or(stored, Null)

\* { 'X-API-Key': apiKey, 'Content-Type': ..., ...options.headers }: the
\* headers of the options come last and win
Headers(key, extra) ==
    [h \in {"X-API-Key", "Content-Type"} \cup DOMAIN extra |->
        IF h \in DOMAIN extra THEN extra[h]
        ELSE IF h = "X-API-Key" THEN key ELSE "application/json"]

\* the options the Gateway's methods pass: none of them sets a header
Options(method) == [method |-> method, headers |-> <<>>]

\* a makeApiCall that sends the request whatever getApiKey gave
makeApiCall_Unguarded(stored, endpoint, options) ==
    [sent |-> <<[url |-> endpoint, method |-> options.method,
                 headers |-> Headers(getApiKey(stored), options.headers)]>>,
     error |-> NoError]

\* makeApiCall up to the request: the requests sent and the error thrown
\* before one is sent
makeApiCall(stored, endpoint, options) ==
    IF Falsy(getApiKey(stored))
    THEN [sent |-> <<>>, error |-> NotAuthenticated]
    ELSE [sent |-> <<[url |-> endpoint, method |-> options.method,
                      headers |-> Headers(getApiKey(stored), options.headers)]>>,
          error |-> NoError]

\* the methods of TemplateService up to their request
GatewayOps ==
    {"getTemplates", "getTemplate", "createTemplate", "updateTemplate",
     "deleteTemplate", "testTemplate", "getUsage"}
gatewayCall(op, stored, id, data) ==
    CASE op = "getTemplates" ->
           makeApiCall(stored, <<"/api/templates">>, Options("GET"))
      [] op = "getTemplate" ->
           makeApiCall(stored, <<"/api/templates", id>>, Options("GET"))
      [] op = "createTemplate" ->
           makeApiCall(stored, <<"/api/templates">>, Options("POST"))
      [] op = "updateTemplate" ->
           IF Falsy(data.name)
           THEN [sent |-> <<>>, error |-> "Name field is required"]
           ELSE IF ContentMissing(data)
           THEN [sent |-> <<>>, error |-> "Content field is required"]
           ELSE makeApiCall(stored, <<"/api/templates", id>>, Options("PUT"))
      [] op = "deleteTemplate" ->
           makeApiCall(stored, <<"/api/templates", id>>, Options("DELETE"))
      [] op = "testTemplate" ->
           makeApiCall(stored, <<"/api/templates", id, "render">>,
                       Options("POST"))
      [] op = "getUsage" ->
           makeApiCall(stored, <<"/api/usage/dashboard">>, Options("GET"))

InitCredential ==
    /\ Quiet
    /\ arg \in [op : GatewayOps, stored : StoredKeys, id : CallIds,
                data : CallData]
    /\ ret = NoRet

GatewayCall == Return(gatewayCall(arg.op, arg.stored, arg.id, arg.data))

SpecCredential == InitCredential /\ [][GatewayCall]_vars

\* ------------------------------------------------------------- tree rendering
\* the elements of the list the tree is rendered from: their category may be
\* empty or missing
TreeTemplates ==
    {[id |-> i, name |-> "n", category |-> c] :
        i \in {"t1", "t2"},
        c \in {"c", "e", "", Undefined, "Uncategorized"}}

\* localeCompare on the labels of the category items: the labels differ in
\* the category name, which decides
CategoryRank == "c" :> 1 @@ "e" :> 2 @@ "Uncategorized" :> 3

\* const category = template.category || 'Uncategorized'
CategoryOf(template) == Or(template.category, "Uncategorized")

\* getCategoryItems: one item per category, labelled `${name} (${count})`,
\* sorted by label
getCategoryItems(list) ==
    LET names == {CategoryOf(list[n]) : n \in 1..Len(list)}
        Item(name) ==
          [label |-> <<name,
                       Cardinality({n \in 1..Len(list) :
                                      CategoryOf(list[n]) = name})>>,
           id |-> name, contextValue |-> "category"]
        F[k \in 0..3] ==
          \* the items of the categories of rank at most k
          IF k = 0 THEN <<>>
          ELSE IF \E name \in names : CategoryRank[name] = k
               THEN Append(F[k - 1],
                           Item(CHOOSE name \in names : CategoryRank[name] = k))
               ELSE F[k - 1]
    IN F[3]

\* getChildren(element) for a category node:
\* this.templates.filter(t => t.category === element.id)
CategoryChildren(list, element) ==
    SelectSeq(list, LAMBDA t : t.category = element.id)

\* getChildren() for the root, grouped by category, and getChildren(element)
\* for every category node it returned
renderTree(list) ==
    LET root == IF Len(list) = 0
                THEN <<[label |-> <<"No templates found", 0>>, id |-> "",
                        contextValue |-> "info"]>>
                ELSE getCategoryItems(list)
    IN [root |-> root,
        children |-> [n \in 1..Len(root) |->
                        IF root[n].contextValue = "category"
                        THEN CategoryChildren(list, root[n]) ELSE <<>>]]

InitTree ==
    /\ Quiet
    /\ arg \in ArraysOf(TreeTemplates, MaxListed)
    /\ ret = NoRet

RenderTree == Return(renderTree(arg))

SpecTree == InitTree /\ [][RenderTree]_vars

\* -------------------------------------------------------------- filterTemplates
\* the list the service holds while a filter runs (arg.response) answers
\* every list request; arg.query is the search term
InitFilter ==
    /\ apiKey = TRUE
    /\ remote = RemoteIds
    /\ docs = <<>>
    /\ templateDocuments = <<>>
    /\ heap = <<>>
    /\ opens = <<>>
    /\ saves = <<>>
    /\ lastSave = NoSave
    /\ justOpened = 0
    /\ templates = <<>>
    /\ loading = FALSE
    /\ filtering = NoFilter
    /\ session = NoSession
    /\ arg \in [query : Queries,
                response : {ArrayOf(items) :
                              items \in ArraysOf(SearchItems, MaxListed)}
                           \cup {NotArray, Failed}]
    /\ ret = NoRet

\* filterTemplates(searchTerm) up to its await: an empty term only fires the
\* refresh
FilterStart ==
    /\ filtering.pc = "idle"
    /\ filtering' = [filtering EXCEPT
                       !.pc = IF arg.query = <<>> THEN "fired" ELSE "searching"]
    /\ UNCHANGED <<templates, loading, call, session, apiKey, remote, docs,
                   templateDocuments, heap, opens, saves, lastSave, justOpened>>

\* this.templates = await searchTemplates(searchTerm); this.refresh()
FilterSearched ==
    /\ filtering.pc = "searching"
    /\ templates' = searchTemplates(arg.query, arg.response)
    /\ filtering' = [filtering EXCEPT !.pc = "fired"]
    /\ UNCHANGED <<loading, call, session, apiKey, remote, docs,
                   templateDocuments, heap, opens, saves, lastSave, justOpened>>

\* the fired event makes the view call getChildren() for the root, which
\* awaits loadTemplates
GetChildrenStart ==
    /\ filtering.pc = "fired"
    /\ ~loading
    /\ loading' = TRUE
    /\ UNCHANGED <<templates, filtering, call, session, apiKey, remote, docs,
                   templateDocuments, heap, opens, saves, lastSave, justOpened>>

\* loadTemplates: this.templates = await getTemplates(); the root is then
\* rendered from this.templates
GetChildrenDone ==
    /\ filtering.pc = "fired"
    /\ loading
    /\ loading' = FALSE
    /\ templates' = getTemplates(arg.response)
    /\ filtering' = [pc |-> "rendered", shown |-> templates']
    /\ UNCHANGED <<call, session, apiKey, remote, docs, templateDocuments, heap,
                   opens, saves, lastSave, justOpened>>

NextFilter ==
    \/ FilterStart
    \/ FilterSearched
    \/ GetChildrenStart
    \/ GetChildrenDone

SpecFilter == InitFilter /\ [][NextFilter]_vars

\* --------------------------------------------------- TestRunner.testTemplate
\* what the render call of the Gateway gives: the parsed body, an object
\* with some of these properties, or an exception (a failed call, or no key)
RenderBodies ==
    { [output |-> "o"], [Output |-> "o"], [result |-> "o"],
      [output |-> ""], [error |-> "e"], [Error |-> "e", output |-> "o"],
      [renderTime |-> "0.5", output |-> "o"] }
RenderThrows == [thrown |-> "API call failed"]
RenderOutcomes == RenderBodies \cup {RenderThrows}

\* prop.charAt(0).toLowerCase() + prop.slice(1), and the same with
\* toUpperCase, on the property names testTemplate asks for
LowerFirst ==
    [p \in {"output", "Output", "result", "Result", "error", "Error",
            "renderTime", "RenderTime"} |->
        CASE p \in {"output", "Output"} -> "output"
          [] p \in {"result", "Result"} -> "result"
          [] p \in {"error", "Error"} -> "error"
          [] p \in {"renderTime", "RenderTime"} -> "renderTime"]
UpperFirst ==
    [p \in DOMAIN LowerFirst |->
        CASE LowerFirst[p] = "output" -> "Output"
          [] LowerFirst[p] = "result" -> "Result"
          [] LowerFirst[p] = "error" -> "Error"
          [] LowerFirst[p] = "renderTime" -> "RenderTime"]

\* obj[prop]: undefined for a property the object does not have
Prop(obj, prop) == IF prop \in DOMAIN obj THEN obj[prop] ELSE Undefined

\* getProp(obj, ...props): for each name in turn the exact property, then
\* the one with a lower-case and the one with an upper-case first letter
getProp(obj, props) ==
    LET F[n \in 1..(Len(props) + 1)] ==
          IF n > Len(props) THEN Undefined
          ELSE IF Prop(obj, props[n]) # Undefined THEN Prop(obj, props[n])
          ELSE IF Prop(obj, LowerFirst[props[n]]) # Undefined
               THEN Prop(obj, LowerFirst[props[n]])
          ELSE IF Prop(obj, UpperFirst[props[n]]) # Undefined
               THEN Prop(obj, UpperFirst[props[n]])
          ELSE F[n + 1]
    IN F[1]

\* the TestResult built from the render result
Rendered(result) ==
    LET output == Or(getProp(result, <<"output", "Output", "result", "Result">>),
                     "")
        error == getProp(result, <<"error", "Error">>)
        renderTime == getProp(result, <<"renderTime", "RenderTime">>)
    IN [success |-> IF ~Falsy(error) THEN False
                    ELSE IF Falsy(output) THEN output ELSE True,
        output |-> Or(output, "No output received"),
        duration |-> IF ~Falsy(renderTime) THEN renderTime ELSE "elapsed",
        errors |-> IF ~Falsy(error) THEN <<error>> ELSE <<>>,
        usageConsumed |-> "1",
        calls |-> 1]

\* a testTemplate that renders whatever validate said
testTemplate_Unchecked(content, render) ==
    IF render = RenderThrows
    THEN [success |-> False, output |-> "", duration |-> "elapsed",
          errors |-> <<render.thrown>>, usageConsumed |-> Undefined,
          calls |-> 1]
    ELSE Rendered(render)

\* TestRunner.testTemplate on a template of the given content, the render
\* call answering with render; calls counts the render calls made
testTemplate(content, render) ==
    LET validation == validateTemplateContent(content)
    IN IF ~validation.isValid
       THEN [success |-> False, output |-> "", duration |-> "elapsed",
             errors |-> validation.errors, usageConsumed |-> Undefined,
             calls |-> 0]
       ELSE IF render = RenderThrows
       THEN [success |-> False, output |-> "", duration |-> "elapsed",
             errors |-> <<render.thrown>>, usageConsumed |-> Undefined,
             calls |-> 1]
       ELSE Rendered(render)

InitTest ==
    /\ Quiet
    /\ arg \in [content : TextsOf(Chunks, MaxTested), render : RenderOutcomes]
    /\ ret = NoRet

Test == Return(testTemplate(arg.content, arg.render))

SpecTest == InitTest /\ [][Test]_vars

\* ------------------------------------------------------- the two save paths
\* the objects the registry may hold: what getTemplate made of a response
BoundRecords == {Normalize(raw) : raw \in RawRecords}

\* what a save did: the body of the PUT request it sent (None when it sent
\* none), the stored object afterwards, and the messages it showed
SaveDid(request, stored, msgs) ==
    [request |-> request, stored |-> stored, msgs |-> msgs]

\* updateTemplate as a whole: the request it sends and what it returns when
\* the PUT is answered with outcome
UpdateExchange(id, data, key, outcome, casing) ==
    IF Falsy(data.name) \/ ContentMissing(data) \/ ~key
    THEN [request |-> None, result |-> UpdateCatch(id, data, now)]
    ELSE LET body == UpdateBody(id, data, now)
         IN [request |-> body,
             result |-> IF outcome \in Success
                        THEN UpdateResult(
                               Json(outcome, Applied(FullRecord, body), casing),
                               id, data, now)
                        ELSE UpdateCatch(id, data, now)]

\* saveTemplateToServer for the stored object and the buffer text, the text
\* being the same when the request is built and when the response arrives
saveTemplateToServer(stored, text, key, outcome, casing) ==
    IF Falsy(stored.name)
    THEN SaveDid(None, stored, {"saveFailed"})
    ELSE LET update == UpdateExchange(stored.id, SaveData(stored, text), key,
                                   outcome, casing)
         IN IF update.result # None
            THEN SaveDid(update.request,
                         SaveApply(stored, update.result, text), {"saved"})
            ELSE SaveDid(update.request, stored, {"updateFailed"})

\* saveTemplateFromEditor, the 'Save to Server' CodeLens command, for the
\* same
saveTemplateFromEditor(stored, text, key, outcome, casing) ==
    LET templateId == stored.id
    IN IF Falsy(templateId)
       THEN SaveDid(None, stored, {"idMissing"})
       ELSE LET update == UpdateExchange(templateId, SaveData(stored, text), key,
                                      outcome, casing)
            IN IF update.result # None
               THEN SaveDid(update.request, stored, {"saved"})
               ELSE SaveDid(update.request, stored, {"updateFailed"})

InitSavePaths ==
    /\ Quiet
    /\ arg \in [stored : BoundRecords, text : Texts, key : BOOLEAN,
                outcome : Outcomes \ {"notfound"}, casing : Casings]
    /\ ret = NoRet

SavePaths ==
    Return([event |-> saveTemplateToServer(arg.stored, arg.text, arg.key,
                                           arg.outcome, arg.casing),
            command |-> saveTemplateFromEditor(arg.stored, arg.text, arg.key,
                                               arg.outcome, arg.casing)])

SpecSavePaths == InitSavePaths /\ [][SavePaths]_vars

\* ---------------------------------------------------------------- AuthProvider
\* how a request that validates a key ends: a 2xx response, another
\* response, or no response (httpRequest rejects)
Validations == {"ok", "rejected", "transport"}

\* activation: the commands are registered, initialize has been called and
\* is not yet awaited to its end; a key may be stored from an earlier run
InitAuth ==
    /\ apiKey \in BOOLEAN
    /\ remote = RemoteIds
    /\ docs = <<>>
    /\ templateDocuments = <<>>
    /\ heap = <<>>
    /\ opens = <<>>
    /\ saves = <<>>
    /\ lastSave = NoSave
    /\ justOpened = 0
    /\ templates = {}
    /\ loading = FALSE
    /\ filtering = NoFilter
    /\ session = [NoSession EXCEPT !.initialize = "start"]
    /\ arg = NoArg
    /\ ret = NoRet

\* a step of the AuthProvider leaves the rest alone
AuthStep ==
    UNCHANGED <<remote, docs, templateDocuments, heap, opens, saves, lastSave,
                justOpened, tree, call>>

\* initialize: secrets.get has answered
InitializeRead ==
    /\ session.initialize = "start"
    /\ session' = [session EXCEPT
                     !.initialize = IF apiKey THEN "validating" ELSE "done"]
    /\ UNCHANGED apiKey
    /\ AuthStep

\* initialize: validateApiKey has returned, false for a response that is not
\* 2xx and for a request that failed; secrets.delete is then called
InitializeValidated(outcome) ==
    /\ session.initialize = "validating"
    /\ session' = [session EXCEPT
                     !.validation = outcome,
                     !.isAuthenticated = IF outcome = "ok" THEN TRUE ELSE @,
                     !.initialize = IF outcome = "ok" THEN "done"
                                    ELSE "deleting"]
    /\ UNCHANGED apiKey
    /\ AuthStep

\* initialize: secrets.delete takes effect
InitializeDelete ==
    /\ session.initialize = "deleting"
    /\ apiKey' = FALSE
    /\ session' = [session EXCEPT !.initialize = "done"]
    /\ AuthStep

\* loro.login: the input box is shown
LoginStart ==
    /\ session.login = "idle"
    /\ session' = [session EXCEPT !.login = "input"]
    /\ UNCHANGED apiKey
    /\ AuthStep

\* login: the input box is closed, with a key or without
LoginInput(entered) ==
    /\ session.login = "input"
    /\ session' = [session EXCEPT
                     !.login = IF entered THEN "validating" ELSE "idle"]
    /\ UNCHANGED apiKey
    /\ AuthStep

\* login: validateApiKey has returned; secrets.store is called for a valid
\* key
LoginValidated(outcome) ==
    /\ session.login = "validating"
    /\ session' = [session EXCEPT
                     !.login = IF outcome = "ok" THEN "storing" ELSE "idle"]
    /\ UNCHANGED apiKey
    /\ AuthStep

\* login: secrets.store takes effect; fetchUserEmail sends its request
LoginStored ==
    /\ session.login = "storing"
    /\ apiKey' = TRUE
    /\ session' = [session EXCEPT !.login = "email"]
    /\ AuthStep

\* login: fetchUserEmail has returned, this._isAuthenticated = true
LoginDone ==
    /\ session.login = "email"
    /\ session' = [session EXCEPT !.login = "idle", !.isAuthenticated = TRUE]
    /\ UNCHANGED apiKey
    /\ AuthStep

\* loro.logout: secrets.delete is called
LogoutStart ==
    /\ session.logout = "idle"
    /\ session' = [session EXCEPT !.logout = "deleting"]
    /\ UNCHANGED apiKey
    /\ AuthStep

\* logout: secrets.delete takes effect; globalState.update is called
LogoutDeleted ==
    /\ session.logout = "deleting"
    /\ apiKey' = FALSE
    /\ session' = [session EXCEPT !.logout = "clearing"]
    /\ AuthStep

\* logout: globalState.update has answered, this._isAuthenticated = false
LogoutDone ==
    /\ session.logout = "clearing"
    /\ session' = [session EXCEPT !.logout = "idle", !.isAuthenticated = FALSE]
    /\ UNCHANGED apiKey
    /\ AuthStep

\* the 60 s timer, set up once initialize has been awaited:
\* if (authProvider.isAuthenticated()) templateTreeProvider.refresh()
TimerRefresh ==
    /\ session.initialize = "done"
    /\ session.isAuthenticated
    /\ RefreshStart

NextAuth ==
    \/ InitializeRead
    \/ \E outcome \in Validations : InitializeValidated(outcome)
    \/ InitializeDelete
    \/ LoginStart
    \/ \E entered \in BOOLEAN : LoginInput(entered)
    \/ \E outcome \in Validations : LoginValidated(outcome)
    \/ LoginStored
    \/ LoginDone
    \/ LogoutStart
    \/ LogoutDeleted
    \/ LogoutDone
    \/ TimerRefresh
    \/ \E outcome \in ListOutcomes : RefreshDone(outcome)

SpecAuth == InitAuth /\ [][NextAuth]_vars

\* --------------------------------------------------------- loro.deleteTemplate
\* how the DELETE request ends: the status of the response and whether its
\* body parses as JSON, or no response
DeleteResponses ==
    [status : {"200", "204", "404", "500"}, parses : BOOLEAN]
        \cup {[status |-> "transport", parses |-> FALSE]}
\* response.ok
Ok(response) == response.status \in {"200", "204"}
\* what the modal warning resolves to
Confirmations == {"Delete", Undefined}

DeletedSuccessfully == [kind |-> "information", text |-> "deleted successfully"]
FailedToDelete == [kind |-> "error", text |-> "Failed to delete template"]

\* TemplateService.deleteTemplate: true, or after any exception of
\* makeApiCall an error message and false
TemplateService_deleteTemplate(stored, id, response) ==
    LET request == makeApiCall(stored, <<"/api/templates", id>>,
                               Options("DELETE"))
        thrown == request.error # NoError \/ ~Ok(response) \/ ~response.parses
    IN [value |-> IF thrown THEN False ELSE True,
        sent |-> request.sent,
        shown |-> IF thrown THEN <<FailedToDelete>> ELSE <<>>]

\* the command: after 'Delete' it awaits the Gateway's deleteTemplate, whose
\* value it does not read, refreshes the tree and shows the success message;
\* its catch is reached only by an exception, which the Gateway never throws
deleteTemplate(confirm, stored, id, response) ==
    IF confirm # "Delete"
    THEN [sent |-> <<>>, shown |-> <<>>, refreshed |-> FALSE]
    ELSE LET result == TemplateService_deleteTemplate(stored, id, response)
         IN [sent |-> result.sent,
             shown |-> result.shown \o <<DeletedSuccessfully>>,
             refreshed |-> TRUE]

InitDelete ==
    /\ Quiet
    /\ arg \in [confirm : Confirmations, stored : StoredKeys, id : CallIds,
                response : DeleteResponses]
    /\ ret = NoRet

DeleteCommand ==
    Return(deleteTemplate(arg.confirm, arg.stored, arg.id, arg.response))

SpecDelete == InitDelete /\ [][DeleteCommand]_vars

\* two template documents, for the saves of one document while another is
\* bound
InitPair ==
    /\ apiKey = TRUE
    /\ remote = RemoteIds
    /\ docs = [d \in {1, 2} |-> NoDoc]
    /\ templateDocuments = [d \in {1, 2} |-> 0]
    /\ heap = [o \in {1, 2} |-> None]
    /\ opens = [j \in {1, 2} |-> IdleOpen]
    /\ saves = [i \in 1..MaxSaves |-> IdleSave]
    /\ lastSave = NoSave
    /\ justOpened = 0
    /\ templates = {}
    /\ loading = FALSE
    /\ filtering = NoFilter
    /\ session = NoSession
    /\ arg = NoArg
    /\ ret = NoRet

SpecPair == InitPair /\ [][Next]_vars

\* ------------------------------------------------------------ usage dashboard
\* time is counted in ticks of half a day from the parsed billingCycleStart
Day == 2
\* the days from the start to the same day of the next month
\* (end.setMonth(start.getMonth() + 1))
MonthLengths == {28, 29, 30, 31}
\* new Date() at the moment the dashboard is drawn, from a day before the
\* start of the cycle to a day after its end
Nows == (0 - Day)..(32 * Day)
UsageCounts == 0..MaxUsage

\* JavaScript numbers: an integer, NaN or Infinity
Num(n) == [kind |-> "number", value |-> n]
NaN == [kind |-> "NaN", value |-> 0]
Infinity == [kind |-> "Infinity", value |-> 0]

\* Math.ceil(ms / (1000 * 60 * 60 * 24))
CeilDays(ticks) == 0 - ((0 - ticks) \div Day)

\* calculateRemainingDays: Math.max(0, Math.ceil(remainingMs / day)); an
\* unparsable billingCycleStart gives NaN
calculateRemainingDays(parses, length, nowTick) ==
    IF ~parses THEN NaN
    ELSE LET remaining == CeilDays(length * Day - nowTick)
         IN Num(IF remaining > 0 THEN remaining ELSE 0)

\* Math.round(n / d) for n >= 0: halves round up, n / 0 is Infinity and
\* 0 / 0 is NaN
RoundedQuotient(n, d) ==
    IF d = 0 THEN (IF n = 0 THEN NaN ELSE Infinity)
    ELSE IF d > 0 THEN Num((2 * n + d) \div (2 * d))
    ELSE Num((0 - 2 * n - d) \div (0 - 2 * d))

\* x * 30
Times30(x) == IF x.kind = "number" THEN Num(x.value * 30) ELSE x

\* getWebviewContent, the daily average and the projection:
\* remainingDays > 0 ? Math.round(usageCount / (30 - remainingDays)) : 0
getWebviewContent(usageCount, parses, length, nowTick) ==
    LET remainingDays == calculateRemainingDays(parses, length, nowTick)
        divides == remainingDays.kind = "number" /\ remainingDays.value > 0
        dailyAverage == IF divides
                        THEN RoundedQuotient(usageCount,
                                             30 - remainingDays.value)
                        ELSE Num(0)
    IN [remainingDays |-> remainingDays,
        divides |-> divides,
        divisor |-> IF divides THEN 30 - remainingDays.value ELSE 0,
        dailyAverage |-> dailyAverage,
        projectedUsage |-> Times30(dailyAverage)]

InitUsage ==
    /\ Quiet
    /\ arg \in [usageCount : UsageCounts, parses : BOOLEAN,
                length : MonthLengths, now : Nows]
    /\ ret = NoRet

DrawDashboard ==
    Return(getWebviewContent(arg.usageCount, arg.parses, arg.length, arg.now))

SpecUsage == InitUsage /\ [][DrawDashboard]_vars

\* ============================================================== properties
\* steps of the handlers, recognised by what they change
SaveStarts(i, d) ==
    saves[i].pc = "idle" /\ saves'[i].pc # "idle" /\ lastSave'.doc = d
SaveCompletes(i) == saves[i].pc = "inflight" /\ saves'[i].pc = "done"
Closes(d) == docs[d].st = "open" /\ docs'[d].st = "closed"
Bound(d) == templateDocuments[d] # 0
\* the save i completes while its document is still bound to the object the
\* save read
CompletesBound(i) ==
    SaveCompletes(i) /\ templateDocuments[saves[i].doc] = saves[i].obj

\* the fields of a stored object other than content and updatedAt
FrameKeys == CamelKeys \ {"content", "updatedAt"}
SameFrame(r1, r2) == \A k \in FrameKeys : r1[k] = r2[k]

\* C1 (as stated): a save that directly follows the openTemplate of its
\* document, with no edit in between, sends an update request whose content
\* is the content of the opened record, and the bound id does not change.
C1_ImmediateSaveSendsRequest ==
    [][\A i \in SaveIds, d \in DocIds :
         (SaveStarts(i, d) /\ justOpened = d)
         => /\ saves'[i].pc = "inflight"
            /\ saves'[i].req.Content = getTemplateInfo(d).content]_vars

\* C1 (amended): the same for records whose name and content are non-empty
\* while the API key is stored; otherwise the save sends no request.  In
\* every step the id of a bound record stays what it was.
C1_ImmediateSaveOfValidRecord ==
    [][/\ \A i \in SaveIds, d \in DocIds :
            (SaveStarts(i, d) /\ justOpened = d)
            => LET r == getTemplateInfo(d)
               IN IF ~Falsy(r.name) /\ ~Falsy(r.content) /\ apiKey
                  THEN /\ saves'[i].pc = "inflight"
                       /\ saves'[i].req.Content = r.content
                       /\ saves'[i].req.Id = r.id
                  ELSE saves'[i].pc = "done" /\ ~lastSave'.sent
       /\ \A d \in DocIds :
            (Bound(d) /\ templateDocuments'[d] # 0)
            => /\ templateDocuments'[d] = templateDocuments[d]
               /\ heap'[templateDocuments'[d]].id = getTemplateInfo(d).id]_vars

C1_Witness ==
    \E i \in SaveIds :
        /\ saves[i].pc = "inflight"
        /\ justOpened = saves[i].doc
        /\ saves[i].req.Content = getTemplateInfo(saves[i].doc).content
        /\ saves[i].req.Content = "a"

\* C2: when a save succeeds, the bound content is the text the update
\* request carried, and the other bound fields keep their values.
C2_BoundContentIsSavedText ==
    [][\A i \in SaveIds :
         (CompletesBound(i) /\ lastSave'.http \in Success)
         => LET before == heap[saves[i].obj]
                after == heap'[saves[i].obj]
            IN /\ after.content = saves[i].req.Content
               /\ SameFrame(before, after)]_vars

C4_EmptySuccessIsSuccess ==
    [][\A i \in SaveIds :
         (SaveCompletes(i) /\ lastSave'.http \in Success)
         => /\ lastSave'.returned
            /\ lastSave'.msgs = {"saved"}
            /\ CompletesBound(i)
               => heap'[saves[i].obj] =
                    [heap[saves[i].obj] EXCEPT !.content = docs[saves[i].doc].text]]_vars

C4_Witness ==
    /\ lastSave.http = "ok_empty"
    /\ lastSave.returned /\ lastSave.msgs = {"saved"}
    /\ templateDocuments[lastSave.doc] = lastSave.obj
    /\ getTemplateInfo(lastSave.doc).content = docs[lastSave.doc].text

\* C5: when the update call fails, the registry and every stored object are
\* what they were, an error is shown and no success message.
C5_FailedSaveKeepsBinding ==
    [][\A i \in SaveIds :
         (SaveCompletes(i) /\ lastSave'.http = "failed")
         => /\ templateDocuments' = templateDocuments
            /\ \A d \in DocIds : Bound(d) => heap'[templateDocuments[d]] = getTemplateInfo(d)
            /\ lastSave'.msgs = {"updateFailed"}
            /\ ~lastSave'.returned]_vars

C5_Witness ==
    /\ lastSave.http = "failed"
    /\ lastSave.msgs = {"updateFailed"}
    /\ templateDocuments[lastSave.doc] = lastSave.obj
    /\ remote = {}

\* C6: a save of a bound document whose bound name is empty or whose buffer
\* is empty ends with an error before a request is sent and changes neither
\* the registry nor a stored object.
C6_InvalidSaveSendsNothing ==
    [][\A i \in SaveIds, d \in DocIds :
         (SaveStarts(i, d) /\ Bound(d)
            /\ (Falsy(getTemplateInfo(d).name) \/ docs[d].text = ""))
         => /\ saves'[i].pc = "done"
            /\ ~lastSave'.sent
            /\ lastSave'.msgs \in {{"saveFailed"}, {"updateFailed"}}
            /\ templateDocuments' = templateDocuments
            /\ heap' = heap]_vars

C6_Witness ==
    /\ lastSave.save # 0 /\ ~lastSave.sent
    /\ lastSave.msgs = {"updateFailed"}
    /\ apiKey
    /\ templateDocuments[lastSave.doc] = lastSave.obj
    /\ ~Falsy(getTemplateInfo(lastSave.doc).name)
    /\ docs[lastSave.doc].text = ""

\* the open j has been given a fetched record: some record of the service,
\* in either casing, as getTemplate normalises it
Fetched(j, o) ==
    \E rec \in SeedRecords, casing \in Casings :
        /\ rec.id = opens[j].summary.id
        /\ o = Normalize(RawResponse(rec, casing))

\* C7: a binding is only ever added by an openTemplate that sent the
\* fetch-by-id request, and the object bound is the record that fetch
\* returned, not the list summary the command was given; an openTemplate
\* whose fetch fails creates no document and adds no binding.
C7_OpenBindsFetchedRecord ==
    [][\A j \in OpenIds :
         /\ (templateDocuments[j] = 0 /\ templateDocuments'[j] # 0)
            => /\ opens[j].pc = "showing" /\ opens[j].sent
               /\ templateDocuments'[j] = j
               /\ heap'[j] = heap[j]
               /\ Fetched(j, heap[j])
               /\ heap[j] # opens[j].summary
         /\ (opens[j].pc = "fetching" /\ opens'[j].pc = "showing")
            => Fetched(j, heap'[j]) /\ docs'[j].text = BufferInit(heap'[j].content)
         /\ (opens[j].pc = "showing" /\ opens'[j].pc = "showing")
            => heap'[j] = heap[j]
         /\ (opens[j].pc # "done" /\ "couldNotLoad" \in opens'[j].msgs)
            => /\ docs'[j].st = "none"
               /\ templateDocuments' = templateDocuments
               /\ heap'[j] = None]_vars

C7_Witness ==
    \E j \in OpenIds :
        /\ templateDocuments[j] = j
        /\ opens[j].msgs = {"editing"} /\ opens[j].sent
        /\ docs[j].st = "open"
        /\ getTemplateInfo(j).sampleData = "s"
        /\ opens[j].summary.sampleData = Undefined

\* C8: a document the registry holds a binding for is an open document that
\* a successful openTemplate produced (the registry is a map, so a document
\* has at most one binding).
C8_BindingOnlyForOpenDocument ==
    \A d \in DocIds :
        Bound(d) => docs[d].st = "open" /\ opens[d].msgs = {"editing"}

\* C9: the close of a document leaves it without a binding, so that
\* getTemplateInfo finds nothing, and sends no request; the close of a
\* document that has no binding leaves the registry as it is.
C9_CloseUnbinds ==
    [][\A d \in DocIds :
         Closes(d)
         => /\ templateDocuments'[d] = 0
            /\ \A e \in DocIds \ {d} : templateDocuments'[e] = templateDocuments[e]
            /\ ~Bound(d) => templateDocuments' = templateDocuments
            /\ saves' = saves /\ opens' = opens]_vars

C9_Witness ==
    \E d \in DocIds :
        /\ docs[d].st = "closed"
        /\ opens[d].msgs = {"editing"}
        /\ getTemplateInfo(d) = None

\* C10 (as stated): the request of a save in flight carries, for every field
\* but content and the timestamp, the value the bound record holds.
C10_RequestCarriesBoundValues ==
    \A i \in SaveIds :
        saves[i].pc = "inflight"
        => LET stored == heap[saves[i].obj]
               req == saves[i].req
           IN /\ req.Id = stored.id
              /\ req.Name = stored.name
              /\ req.Category = stored.category
              /\ req.Description = stored.description
              /\ req.IsActive = stored.isActive
              /\ req.SampleData = stored.sampleData
              /\ req.Schema = stored.schema

\* C10 (amended): the request carries the bound id and name, and the bound
\* category, description, sampleData, schema and isActive where the bound
\* record has a value for them; an empty or absent category is sent as
\* "General", description as "", sampleData and schema as null, and an
\* absent isActive as true.
C10_RequestCarriesBoundOrDefault ==
    \A i \in SaveIds :
        saves[i].pc = "inflight"
        => LET stored == heap[saves[i].obj]
               req == saves[i].req
           IN /\ req.Id = stored.id
              /\ req.Name = stored.name
              /\ req.Category = IF Falsy(stored.category) THEN "General"
                                ELSE stored.category
              /\ req.Description = IF Falsy(stored.description) THEN ""
                                   ELSE stored.description
              /\ req.IsActive = IF stored.isActive = Undefined THEN True
                                ELSE stored.isActive
              /\ req.SampleData = IF Falsy(stored.sampleData) THEN Null
                                  ELSE stored.sampleData
              /\ req.Schema = IF Falsy(stored.schema) THEN Null
                              ELSE stored.schema

C10_Witness ==
    \E i \in SaveIds :
        /\ saves[i].pc = "inflight"
        /\ Falsy(heap[saves[i].obj].category)
        /\ heap[saves[i].obj].isActive = Undefined
        /\ saves[i].req.Category = "General"
        /\ saves[i].req.IsActive = True

\* C11: a save that starts while another save of its document is in flight
\* sends its request too and leaves the other one in flight; and when the
\* last of the overlapping saves of a document gets its 2xx response, the
\* bound content is the content that save's request carried.
C11_LastResponseWins ==
    [][\A i \in SaveIds :
         /\ \A d \in DocIds :
              (SaveStarts(i, d) /\ DocReferenced(d, saves) /\ Bound(d) /\ apiKey
                 /\ ~Falsy(getTemplateInfo(d).name) /\ docs[d].text # "")
              => /\ saves'[i].pc = "inflight" /\ lastSave'.sent
                 /\ saves'[i].req.Content = docs[d].text
                 /\ \A k \in SaveIds \ {i} :
                      saves[k].pc = "inflight" => saves'[k].pc = "inflight"
         /\ (CompletesBound(i) /\ saves[i].conc /\ lastSave'.http \in Success
               /\ ~DocReferenced(saves[i].doc, saves'))
            => heap'[saves[i].obj].content = saves[i].req.Content]_vars

\* a step of the tree refresh: it starts or ends a loadTemplates, or puts
\* a new listing in place
RefreshStep == loading' # loading \/ templates' # templates

\* C12: a step of the tree refresh, the periodic one included, leaves the
\* registry, every stored object, the documents and the handlers in
\* progress as they are; all it changes is the listing.
C12_RefreshKeepsBindings ==
    [][RefreshStep
       => /\ templateDocuments' = templateDocuments
          /\ heap' = heap
          /\ \A d \in DocIds : getTemplateInfo(d)' = getTemplateInfo(d)
          /\ docs' = docs /\ saves' = saves /\ opens' = opens]_vars

C12_Witness ==
    /\ templates # {} /\ loading
    /\ \E i \in SaveIds :
         /\ saves[i].pc = "inflight"
         /\ templateDocuments[saves[i].doc] = saves[i].obj
         /\ docs[saves[i].doc].text # saves[i].req.Content

\* the objects the registry holds are what they were
BindingsKept ==
    /\ templateDocuments' = templateDocuments
    /\ \A d \in DocIds : Bound(d) => heap'[templateDocuments[d]] = getTemplateInfo(d)

\* the record a bound document was opened from is gone from the service
Stale(d) == Bound(d) /\ ~Exists(getTemplateInfo(d).id)

\* a save of the bound document d would pass the checks made before the
\* request is sent
Sendable(d) ==
    ~Falsy(getTemplateInfo(d).name) /\ docs[d].text # "" /\ apiKey

\* C13 (as stated): the deletion of a remote record leaves the bindings as
\* they are; every later save of a document bound to it sends an update
\* request, the request fails, and the bindings are as they are after it.
C13_StaleSaveSendsAndFails ==
    [][/\ remote' # remote => BindingsKept
       /\ \A i \in SaveIds, d \in DocIds :
            (SaveStarts(i, d) /\ Stale(d))
            => saves'[i].pc = "inflight" /\ lastSave'.sent /\ BindingsKept
       /\ \A i \in SaveIds :
            (SaveCompletes(i) /\ ~Exists(saves[i].req.Id))
            => lastSave'.http = "failed" /\ BindingsKept]_vars

\* C13 (amended): the same, for a save that passes the checks made before
\* the request (non-empty bound name and buffer, API key stored); a save
\* that does not pass them ends with an error without a request, and the
\* bindings are as they are after it too.
C13_StaleSaveFails ==
    [][/\ remote' # remote => BindingsKept
       /\ \A i \in SaveIds, d \in DocIds :
            (SaveStarts(i, d) /\ Stale(d))
            => /\ BindingsKept
               /\ IF Sendable(d)
                  THEN saves'[i].pc = "inflight" /\ lastSave'.sent
                  ELSE /\ saves'[i].pc = "done" /\ ~lastSave'.sent
                       /\ lastSave'.msgs \in {{"saveFailed"}, {"updateFailed"}}
       /\ \A i \in SaveIds :
            (SaveCompletes(i) /\ ~Exists(saves[i].req.Id))
            => /\ lastSave'.http = "failed" /\ BindingsKept
               /\ lastSave'.msgs = {"updateFailed"}]_vars

C13_Witness ==
    /\ lastSave.http = "failed" /\ lastSave.sent
    /\ remote = {}
    /\ docs[lastSave.doc].st = "open"
    /\ templateDocuments[lastSave.doc] = lastSave.obj
    /\ getTemplateInfo(lastSave.doc).content = "a"
    /\ docs[lastSave.doc].text = "b"

\* C14: a save sends its update request when it starts or never, and an
\* open its fetch request likewise; the request in flight is not replaced,
\* the response, whatever it is, ends the save or moves the open on, and a
\* handler that has ended sends nothing more.
C14_OneRequestPerTrigger ==
    [][/\ \A i \in SaveIds :
            /\ (saves[i].pc # "inflight" /\ saves'[i].pc = "inflight")
               => saves[i].pc = "idle"
            /\ (saves[i].pc = "inflight" /\ saves'[i].pc = "inflight")
               => saves'[i].req = saves[i].req
            /\ (saves[i].pc = "inflight" /\ lastSave'.save = i
                  /\ lastSave'.http # "")
               => saves'[i].pc = "done"
            /\ saves[i].pc = "done" => saves'[i].pc = "done"
       /\ \A j \in OpenIds :
            /\ (opens[j].pc # "fetching" /\ opens'[j].pc = "fetching")
               => opens[j].pc = "idle" /\ ~opens[j].sent
            /\ opens[j].pc \in {"showing", "done"}
               => opens'[j].pc \in {"showing", "done"}
                  /\ opens'[j].sent = opens[j].sent
            /\ (opens[j].pc = "fetching" /\ opens'[j].pc = "done")
               => opens'[j].msgs \in {{"fetchFailed", "couldNotLoad"},
                                      {"openFailed"}}]_vars

C14_Witness ==
    /\ lastSave.http = "failed" /\ lastSave.sent
    /\ saves[lastSave.save].pc = "done"
    /\ apiKey /\ remote # {}
    /\ templateDocuments[lastSave.doc] = lastSave.obj

\* the number of characters c that stand in a row right before position p
RunBefore(s, p, c) ==
    Cardinality({k \in 1..(p - 1) : \A m \in k..(p - 1) : s[m] = c})

\* the occurrences of the doubled character c, taken pairwise from the
\* start of each row of c
Doubled(s, c) ==
    {p \in 1..(Len(s) - 1) :
        s[p] = c /\ s[p + 1] = c /\ RunBefore(s, p, c) % 2 = 0}

\* the occurrences of character a directly followed by character b
Followed(s, a, b) == {p \in 1..(Len(s) - 1) : s[p] = a /\ s[p + 1] = b}

\* the occurrences of the keyword anywhere in the text
Keyword(s, word) == {p \in 1..Len(s) : s[p] = word}

\* the occurrences of the keyword as the start of a statement: after {%
\* and any white space
Statement(s, word) ==
    {p \in 1..(Len(s) - 2) :
        /\ s[p] = "{" /\ s[p + 1] = "%"
        /\ \E q \in (p + 2)..Len(s) :
             s[q] = word /\ \A m \in (p + 2)..(q - 1) : s[m] = " "}

\* the error list for the given mismatches of the four pairs, in order
ErrorsFor(braces, statements, ifs, fors) ==
    (IF braces THEN <<"Mismatched {{ }} braces">> ELSE <<>>)
    \o (IF statements THEN <<"Mismatched {% %} statement braces">> ELSE <<>>)
    \o (IF ifs THEN <<"Mismatched if/endif blocks">> ELSE <<>>)
    \o (IF fors THEN <<"Mismatched for/endfor blocks">> ELSE <<>>)

Differ(S, T) == Cardinality(S) # Cardinality(T)

\* C15 (as stated): validate returns one error for each of the four pairs
\* {{ / }}, {% / %}, if / endif, for / endfor whose numbers of occurrences
\* in the text differ, and nothing else; isValid tells that there is none.
C15_ErrorPerMismatchedPair ==
    ret.done
    => /\ ret.value.errors =
            ErrorsFor(Differ(Doubled(arg, "{"), Doubled(arg, "}")),
                      Differ(Followed(arg, "{", "%"), Followed(arg, "%", "}")),
                      Differ(Keyword(arg, "if"), Keyword(arg, "endif")),
                      Differ(Keyword(arg, "for"), Keyword(arg, "endfor")))
       /\ ret.value.isValid <=> ret.value.errors = <<>>

\* C15 (amended): the same, where if, endif, for and endfor are counted
\* only where they start a statement, that is directly after {% and
\* optional white space; equal numbers of {{ and }} give no brace error
\* wherever they stand.
C15_ErrorPerMismatchedStatement ==
    ret.done
    => /\ ret.value.errors =
            ErrorsFor(Differ(Doubled(arg, "{"), Doubled(arg, "}")),
                      Differ(Followed(arg, "{", "%"), Followed(arg, "%", "}")),
                      Differ(Statement(arg, "if"), Statement(arg, "endif")),
                      Differ(Statement(arg, "for"), Statement(arg, "endfor")))
       /\ ret.value.isValid <=> ret.value.errors = <<>>
       /\ ~Differ(Doubled(arg, "{"), Doubled(arg, "}"))
          => \A k \in 1..Len(ret.value.errors) :
                ret.value.errors[k] # "Mismatched {{ }} braces"

C15_Witness ==
    /\ ret.done
    /\ arg = <<"{", "%", " ", "if", "%", "}">>
    /\ ret.value.errors = <<"Mismatched if/endif blocks">>
    /\ ~ret.value.isValid

\* the double-brace references of a content, each by the position of its
\* opening braces: {{ and the next }} with no brace in between
References(content) ==
    {p \in 1..(Len(content) - 1) :
       /\ content[p] = "{" /\ content[p + 1] = "{"
       /\ LET q == FindClose(content, p + 2)
          IN /\ q + 1 <= Len(content)
             /\ (IF q + 1 <= Len(content) THEN content[q + 1] = "}" ELSE FALSE)
             /\ \A r \in (p + 2)..(q - 1) : content[r] # "{"}
\* the text of a reference up to its first filter bar
BeforeFilter(t) ==
    LET bars == {p \in 1..Len(t) : t[p] = "|"}
    IN IF bars = {} THEN t
       ELSE SubSeq(t, 1, (CHOOSE p \in bars : \A q \in bars : p <= q) - 1)
\* the dot-separated segments of the reference at p, braces and filter
\* stripped
PathOf(content, p) ==
    Split(Trim(BeforeFilter(SubSeq(content, p + 2,
                                   FindClose(content, p + 2) - 1))), ".")
\* the references of at least two segments
TwoSegment(content) ==
    {path \in {PathOf(content, p) : p \in References(content)} :
       Len(path) >= 2}

\* C16: synthesize never returns an empty object, and returns the default
\* fixture when the content holds no reference of at least two segments.
C16_DefaultFixtureWithoutTwoSegments ==
    ret.done
    => /\ ret.value # EmptyObject
       /\ TwoSegment(arg) = {} => ret.value = DefaultFixture

\* the rules in their priority order
Rules ==
    << [keywords |-> {<<"n", "a", "m", "e">>},
        value |-> JohnDoe],
       [keywords |-> {<<"e", "m", "a", "i", "l">>},
        value |-> JohnEmail],
       [keywords |-> {<<"p", "r", "i", "c", "e">>,
                      <<"c", "o", "s", "t">>,
                      <<"a", "m", "o", "u", "n", "t">>},
        value |-> Decimal],
       [keywords |-> {<<"d", "a", "t", "e">>},
        value |-> IsoNow],
       [keywords |-> {<<"p", "h", "o", "n", "e">>},
        value |-> Phone],
       [keywords |-> {<<"a", "d", "d", "r", "e", "s", "s">>},
        value |-> Address],
       [keywords |-> {<<"u", "r", "l">>,
                      <<"l", "i", "n", "k">>},
        value |-> Url],
       [keywords |-> {<<"i", "d">>},
        value |-> IdText],
       [keywords |-> {<<"c", "o", "u", "n", "t">>,
                      <<"n", "u", "m", "b", "e", "r">>,
                      <<"q", "u", "a", "n", "t", "i", "t", "y">>},
        value |-> Integer],
       [keywords |-> {<<"d", "e", "s", "c", "r", "i", "p", "t", "i", "o", "n">>,
                      <<"n", "o", "t", "e", "s">>},
        value |-> Description],
       [keywords |-> {<<"t", "i", "t", "l", "e">>},
        value |-> Title] >>
\* the value of the first rule one of whose keywords the lower-cased name
\* holds, the generic default when there is none
RuleValue(name) ==
    LET hits == {n \in 1..Len(Rules) :
                   \E k \in Rules[n].keywords : includes(toLowerCase(name), k)}
    IN IF hits = {} THEN SampleValue
       ELSE Rules[CHOOSE n \in hits : \A m \in hits : n <= m].value
\* every leaf of the object holds the value the rules give its name (the
\* leaves of the default fixture are fixed, not given by the rules)
LeavesFollowRules(object) ==
    \A o \in Keys(object) : \A l \in Keys(object[o]) :
        object[o][l] = RuleValue(l)
\* "Hello {{ user.name }}, total {{ order.total }}"
Example ==
    <<"H", "e", "l", "l", "o", " ">>
    \o <<"{", "{", " ", "u", "s", "e", "r", ".", "n", "a", "m", "e", " ", "}", "}">>
    \o <<",", " ", "t", "o", "t", "a", "l", " ">>
    \o <<"{", "{", " ", "o", "r", "d", "e", "r", ".", "t", "o", "t", "a", "l", " ", "}", "}">>
\* the example yields the keys user and order, and the name-shaped string
ExampleKeys(object) ==
    /\ Keys(object) = {<<"u", "s", "e", "r">>, <<"o", "r", "d", "e", "r">>}
    /\ object[<<"u", "s", "e", "r">>][<<"n", "a", "m", "e">>] = JohnDoe

\* C17 (as stated): every leaf holds the value of the first rule matching its
\* lower-cased name, the generic default when none matches; in the example
\* order.total is a number equal to the generic default.
C17_FirstRuleWinsNumericDefault ==
    ret.done
    => /\ ret.value # DefaultFixture => LeavesFollowRules(ret.value)
       /\ arg = Example
          => /\ ExampleKeys(ret.value)
             /\ ret.value[<<"o", "r", "d", "e", "r">>][<<"t", "o", "t", "a", "l">>] = SampleValue
             /\ ret.value[<<"o", "r", "d", "e", "r">>][<<"t", "o", "t", "a", "l">>].type = "number"

\* C17 (amended): the same, with order.total in the example the generic
\* default, which is the string "Sample Value" and no number.
C17_FirstRuleWinsStringDefault ==
    ret.done
    => /\ ret.value # DefaultFixture => LeavesFollowRules(ret.value)
       /\ arg = Example
          => /\ ExampleKeys(ret.value)
             /\ ret.value[<<"o", "r", "d", "e", "r">>][<<"t", "o", "t", "a", "l">>] = SampleValue
             /\ ret.value[<<"o", "r", "d", "e", "r">>][<<"t", "o", "t", "a", "l">>].type = "string"
             /\ ret.value[<<"o", "r", "d", "e", "r">>][<<"t", "o", "t", "a", "l">>] # Decimal

\* the example has been synthesized
C17_Witness ==
    /\ ret.done
    /\ arg = Example
    /\ ret.value[<<"o", "r", "d", "e", "r">>][<<"t", "o", "t", "a", "l">>].text = "Sample Value"

\* C18: for each reference of at least two segments the object has the first
\* segment as a key, whose object has the second segment, braces and filter
\* stripped, as a key; references sharing a first segment share one object.
C18_ReferencesBecomeKeys ==
    ret.done
    => \A path \in TwoSegment(arg) :
           /\ path[1] \in Keys(ret.value)
           /\ path[2] \in Keys(ret.value[path[1]])

\* the value of a field of a list element, in whichever casing it has it
FieldOf(template, field) ==
    IF field \in DOMAIN template THEN template[field]
    ELSE IF PascalOf(field) \in DOMAIN template THEN template[PascalOf(field)]
    ELSE <<>>
\* the lower-cased query is part of the lower-cased name, description or
\* category
Qualifies(template, query) ==
    \E field \in {"name", "description", "category"} :
        includes(toLowerCase(FieldOf(template, field)), toLowerCase(query))

\* C19: searchTemplates returns exactly the listed templates one of whose
\* name, description and category holds the query, letter case ignored,
\* whatever the other two fields are.
C19_SearchMatchesAnyField ==
    ret.done
    => ret.value = SelectSeq(getTemplates(arg.response),
                             LAMBDA t : Qualifies(t, arg.query))

\* the record handed back reads no undefined id, name or content that the
\* response body carried in PascalCase
ReadsCarried(record, body) ==
    \A k \in {"id", "name", "content"} :
        body[PascalOf(k)] # Undefined => record[k] = body[PascalOf(k)]

\* C20: every record handed back by list, getById, create and update has the
\* camelCase fields, whichever casing the response used: its id, name and
\* content are those the response carried.
C20_HandedRecordsAreCamelCase ==
    ret.done
    => IF arg.op = "list"
       THEN /\ Len(ret.value) = Len(getTemplates(arg.response))
            /\ \A n \in 1..Len(ret.value) :
                   ReadsCarried(ret.value[n], arg.response.items[n])
       ELSE arg.response.kind = "body"
            => ReadsCarried(ret.value, arg.response.body)

\* a key is stored
KeyStored(stored) == stored \notin {Undefined, Null, ""}
\* every request sent carries the stored key as its X-API-Key header
CarriesStoredKey ==
    \A n \in 1..Len(ret.value.sent) :
        ret.value.sent[n].headers["X-API-Key"] = arg.stored

\* C21 (as stated): every request of the Gateway carries the stored API key
\* as its credential header; with no key stored every call fails with the
\* not-authenticated error and sends no request.
C21_NoKeyNotAuthenticated ==
    ret.done
    => /\ CarriesStoredKey
       /\ ~KeyStored(arg.stored)
          => ret.value.sent = <<>> /\ ret.value.error = NotAuthenticated

\* C21 (amended): the same, but an update whose name or content is empty
\* fails on that check, before the key is read, with the error of the check.
C21_NoKeySendsNothing ==
    ret.done
    => /\ CarriesStoredKey
       /\ ~KeyStored(arg.stored)
          => /\ ret.value.sent = <<>>
             /\ ret.value.error # NoError
             /\ ret.value.error # NotAuthenticated
                => /\ arg.op = "updateTemplate"
                   /\ Falsy(arg.data.name) \/ Falsy(arg.data.content)

\* an update that passes its checks has failed as not authenticated, no key
\* being stored, without a request
C21_Witness ==
    /\ ret.done
    /\ arg.op = "updateTemplate"
    /\ arg.stored = Undefined
    /\ ~Falsy(arg.data.name) /\ ~Falsy(arg.data.content)
    /\ ret.value = [sent |-> <<>>, error |-> NotAuthenticated]

\* the category nodes of a rendered tree
CategoryNodes(view) ==
    {n \in 1..Len(view.root) : view.root[n].contextValue = "category"}
\* the template is among the children of node n
ChildOf(view, template, n) ==
    \E k \in 1..Len(view.children[n]) : view.children[n][k] = template

\* C22: every listed template is a child of exactly one category node, and a
\* category node has as many children as its label counts, the templates
\* without a category under 'Uncategorized' included.
C22_ChildrenMatchLabels ==
    ret.done
    => /\ \A k \in 1..Len(arg) :
              Cardinality({n \in CategoryNodes(ret.value) :
                             ChildOf(ret.value, arg[k], n)}) = 1
       /\ \A n \in CategoryNodes(ret.value) :
              Len(ret.value.children[n]) = ret.value.root[n].label[2]

\* C23: once filterTemplates(term), term not empty, has completed and the
\* refresh it fires has rendered the tree, the tree shows the templates
\* searchTemplates(term) returned, not the full list.
C23_TreeShowsSearchResult ==
    (filtering.pc = "rendered" /\ arg.query # <<>>)
    => filtering.shown = searchTemplates(arg.query, arg.response)

\* C24: testTemplate makes its render call only for a content that passed
\* validate; for a content that did not it returns success false with
\* exactly the validation errors, makes no render call and reports no usage.
C24_RenderOnlyAfterValidation ==
    ret.done
    => LET validation == validateTemplateContent(arg.content)
       IN /\ ret.value.calls <= 1
          /\ ret.value.calls = 1 => validation.isValid
          /\ ~validation.isValid
             => /\ ret.value.success = False
                /\ ret.value.errors = validation.errors
                /\ ret.value.calls = 0
                /\ ret.value.usageConsumed = Undefined

\* a content with an unclosed {{ has been refused without a render call
C24_Witness ==
    /\ ret.done
    /\ arg.content = <<"{", "{">>
    /\ arg.render = [output |-> "o"]
    /\ ret.value.errors = <<"Mismatched {{ }} braces">>
    /\ ret.value.calls = 0

\* C25: for the same bound record and buffer text the 'Save to Server'
\* command and the document-save event send the same update request, and
\* after a successful save the binding is the same: its content is the text.
C25_SavePathsAgree ==
    ret.done
    => /\ ret.value.event.request = ret.value.command.request
       /\ "saved" \in ret.value.event.msgs
          => /\ "saved" \in ret.value.command.msgs
             /\ ret.value.command.stored = ret.value.event.stored
             /\ ret.value.command.stored.content = arg.text

\* C26: in every reachable state isAuthenticated() is true only if an API
\* key is stored, however initialize, login, logout and the timer interleave.
C26_AuthenticatedOnlyWithKey == session.isAuthenticated => apiKey

\* C27: initialize removes the stored key only when the server rejected it
\* with a response that is not 2xx; after a transport error the key stays.
C27_InitializeKeepsKeyOnTransportError ==
    [][(session.initialize = "deleting" /\ apiKey /\ ~apiKey')
       => session.validation = "rejected"]_vars

\* the Gateway delete succeeded: the request was sent and answered 2xx
DeleteSucceeded == ret.value.sent # <<>> /\ Ok(arg.response)
Shows(message) == \E n \in 1..Len(ret.value.shown) : ret.value.shown[n] = message

\* C28: the delete command shows 'deleted successfully' only when the
\* Gateway delete succeeded; when it failed an error is shown and no success
\* message.
C28_SuccessMessageOnlyAfterDelete ==
    (ret.done /\ arg.confirm = "Delete") =>
        /\ Shows(DeletedSuccessfully) => DeleteSucceeded
        /\ ~DeleteSucceeded =>
             Shows(FailedToDelete) /\ ~Shows(DeletedSuccessfully)

\* the save i ends in this step, with or without a request
SaveEnds(i) == saves[i].pc # "done" /\ saves'[i].pc = "done"
\* the record document d is bound to
BoundRecord(registry, h, d) == IF registry[d] = 0 THEN None ELSE h[registry[d]]

\* C29: the completion of a save of document D leaves the set of bound
\* documents as it was and the bound record of every other document as it
\* was, also when another document is bound to the same remote id and when
\* D has been closed meanwhile.
C29_SaveCompletionKeepsOtherBindings ==
    [][\A i \in SaveIds :
          SaveEnds(i) =>
            /\ {d \in DocIds : templateDocuments'[d] # 0}
                   = {d \in DocIds : Bound(d)}
            /\ \A e \in DocIds \ {lastSave'.doc} :
                   BoundRecord(templateDocuments', heap', e)
                     = BoundRecord(templateDocuments, heap, e)]_vars

\* a save of a document that was closed meanwhile has completed with a
\* record, while another document is bound to the same remote id with
\* a content of its own
C29_Witness ==
    /\ lastSave.returned
    /\ docs[lastSave.doc].st = "closed"
    /\ ~Bound(lastSave.doc)
    /\ \E e \in DocIds \ {lastSave.doc} :
          /\ Bound(e)
          /\ getTemplateInfo(e).id = "t1"
          /\ getTemplateInfo(e).content # docs[lastSave.doc].text

FiniteNonNegative(x) == x.kind = "number" /\ x.value >= 0

\* C30: for every usage record and every current date the dashboard divides
\* usageCount by a strictly positive number of elapsed days, and the daily
\* average and the projected monthly usage are finite and non-negative.
C30_AveragesFiniteNonNegative ==
    ret.done =>
        /\ ret.value.divides => ret.value.divisor > 0
        /\ FiniteNonNegative(ret.value.dailyAverage)
        /\ FiniteNonNegative(ret.value.projectedUsage)

====
